---- MODULE Spec2Model ----
(***************************************************************************)
(* Model of the muskox checkers engine: Direction / Action (action.rs),    *)
(* Bitboard (bitboard.rs), Zobrist keys (zobrist.rs), the transposition    *)
(* table (search/tt.rs) and the search engine (search/engine.rs).          *)
(*                                                                         *)
(* Representation.  A 32-bit mask is the set of its set bit positions      *)
(* (a subset of 0..31); shifts move every element and drop what leaves     *)
(* 0..31.  An Option is a set with at most one element.  An Action (a      *)
(* packed u32) is the record of its fields.  A 64-bit Zobrist value is     *)
(* the set of the table indices XOR-ed into it, XOR being the symmetric    *)
(* difference.                                                             *)
(***************************************************************************)
EXTENDS Integers, Sequences, FiniteSets, TLC

VARIABLES board, ply, last, overflow_checks, tt, saves, tlast, iddfs, conc, app

vars == <<board, ply, last, overflow_checks, tt, saves, tlast, iddfs, conc, app>>

-----------------------------------------------------------------------------
(* Masks                                                                   *)

Squares == 0..31

Shl(m, k) == {s + k : s \in m} \cap Squares

Shr(m, k) == {s - k : s \in m} \cap Squares

Not(m) == Squares \ m

Bit(p) == IF p \in Squares THEN {p} ELSE {}

MASK_L3 == {0, 1, 2, 8, 9, 10, 16, 17, 18, 24, 25, 26}

MASK_L5 == {5, 6, 7, 13, 14, 15, 21, 22, 23, 29, 30, 31}

MASK_R3 == {5, 6, 7, 13, 14, 15, 21, 22, 23, 29, 30, 31}

MASK_R5 == {0, 1, 2, 8, 9, 10, 16, 17, 18, 24, 25, 26}

Black == "Black"

White == "White"

\* transmute((turn as u8 + 1) % 2) with Black = 0, White = 1
Opponent(color) == IF color = Black THEN White ELSE Black

-----------------------------------------------------------------------------
(* Direction                                                               *)

UpLeft == "UpLeft"

UpRight == "UpRight"

DownLeft == "DownLeft"

DownRight == "DownRight"

Directions == {UpLeft, UpRight, DownLeft, DownRight}

IsUp(d) == d = UpLeft \/ d = UpRight

IsDown(d) == d = DownLeft \/ d = DownRight

between(src, dst) ==
    LET diff == dst - src
    IN  IF diff = 0 - 9 THEN {UpLeft}
        ELSE IF diff = 0 - 7 THEN {UpRight}
        ELSE IF diff = 7 THEN {DownLeft}
        ELSE IF diff = 9 THEN {DownRight}
        ELSE IF (src \div 4) % 2 = 0
             THEN IF diff = 0 - 4 THEN {UpLeft}
                  ELSE IF diff = 0 - 3 THEN {UpRight}
                  ELSE IF diff = 4 THEN {DownLeft}
                  ELSE IF diff = 5 THEN {DownRight}
                  ELSE {}
             ELSE IF diff = 0 - 5 THEN {UpLeft}
                  ELSE IF diff = 0 - 4 THEN {UpRight}
                  ELSE IF diff = 3 THEN {DownLeft}
                  ELSE IF diff = 4 THEN {DownRight}
                  ELSE {}

relative_to(dir, position) ==
    IF position > 31 THEN {}
    ELSE LET out == IF (position \div 4) % 2 = 0
                    THEN CASE dir = UpLeft -> position - 4
                           [] dir = UpRight -> position - 3
                           [] dir = DownLeft -> position + 4
                           [] dir = DownRight -> position + 5
                    ELSE CASE dir = UpLeft -> position - 5
                           [] dir = UpRight -> position - 4
                           [] dir = DownLeft -> position + 3
                           [] dir = DownRight -> position + 4
         IN  IF out < 0 \/ out > 31 THEN {}
             ELSE LET d == (out % 4) - (position % 4)
                  IN  IF d # 0 /\ d # 1 /\ d # 0 - 1 THEN {} ELSE {out}

\* Rust's % on a negative i8 keeps the sign of the dividend.
RustRem(x, m) == IF x >= 0 THEN x % m ELSE 0 - ((0 - x) % m)

\* relative_jump_from with the test of the columns forgotten
relative_jump_from_any_column(dir, position) ==
    LET pos == IF position > 127 THEN position - 256 ELSE position
    IN  IF pos > 31 THEN {}
        ELSE LET out == CASE dir = UpLeft -> pos - 9
                          [] dir = UpRight -> pos - 7
                          [] dir = DownLeft -> pos + 7
                          [] dir = DownRight -> pos + 9
             IN  IF out < 0 \/ out > 31 THEN {} ELSE {out}

\* `position as i8` happens before the range test, so a u8 above 127 is
\* negative here.  Below -119 the subtraction leaves the i8 range: a build
\* without overflow checks wraps it far outside 0..=31.
relative_jump_from(dir, position) ==
    LET pos == IF position > 127 THEN position - 256 ELSE position
    IN  IF pos > 31 THEN {}
        ELSE LET out == CASE dir = UpLeft -> pos - 9
                          [] dir = UpRight -> pos - 7
                          [] dir = DownLeft -> pos + 7
                          [] dir = DownRight -> pos + 9
             IN  IF out < 0 \/ out > 31 THEN {}
                 ELSE LET d == RustRem(out, 4) - RustRem(pos, 4)
                      IN  IF d # 0 - 1 /\ d # 1 THEN {} ELSE {out}

-----------------------------------------------------------------------------
(* Action                                                                  *)

Move == "Move"

Jump == "Jump"

Abs(x) == IF x < 0 THEN 0 - x ELSE x

\* Direction of one chain step in from_vector; {} is the `_` arm.
StepDirection(diff) ==
    IF diff = 0 - 9 THEN {UpLeft}
    ELSE IF diff = 0 - 7 THEN {UpRight}
    ELSE IF diff = 7 THEN {DownLeft}
    ELSE IF diff = 9 THEN {DownRight}
    ELSE {}

\* positions: a sequence of u8 in external numbering.  x - 1 is taken
\* modulo 2^8 (a build without overflow checks).
from_vector(positions) ==
    LET ps == [i \in 1..Len(positions) |-> (positions[i] + 255) % 256]
        n  == Len(ps)
    IN  IF \E i \in 1..n : ps[i] > 31
        THEN [ok |-> FALSE, err |-> "PositionValueError"]
        ELSE IF n < 2 \/ n > 9
        THEN [ok |-> FALSE, err |-> "MoveQuantityError"]
        ELSE LET src == ps[1]
                 dst == ps[n]
                 abs_diff == Abs(src - dst)
             IN  IF n > 2 \/ (abs_diff # 3 /\ abs_diff # 4 /\ abs_diff # 5)
                 THEN IF \E i \in 1..(n - 1) : StepDirection(ps[i + 1] - ps[i]) = {}
                      THEN [ok |-> FALSE, err |-> "PositionValueError"]
                      ELSE [ok |-> TRUE,
                            action |-> [source |-> src,
                                        destination |-> dst,
                                        jump_len |-> n - 1,
                                        dirs |-> [i \in 1..(n - 1) |->
                                            CHOOSE d \in StepDirection(ps[i + 1] - ps[i]) : TRUE]]]
                 ELSE [ok |-> TRUE,
                       action |-> [source |-> src,
                                   destination |-> dst,
                                   jump_len |-> 0,
                                   dirs |-> << >>]]

source(a) == a.source

destination(a) == a.destination

jump_len(a) == a.jump_len

\* i counts from 0 as in the code
jump_direction(a, i) == IF i >= jump_len(a) THEN {} ELSE {a.dirs[i + 1]}

action_type(a) == IF jump_len(a) = 0 THEN Move ELSE Jump

move_direction(a) ==
    IF action_type(a) = Jump THEN {} ELSE between(source(a), destination(a))

-----------------------------------------------------------------------------
(* Zobrist keys                                                            *)

ZXor(a, b) == (a \ b) \cup (b \ a)

get_position_hash(position, color, is_king) ==
    LET hash == IF color = Black THEN {position} ELSE {32 + position}
    IN  IF is_king THEN ZXor(hash, {64 + position}) ELSE hash

get_turn_hash == {96}

-----------------------------------------------------------------------------
(* Bitboard                                                                *)

DefaultBoard ==
    [blacks |-> 0..11, whites |-> 20..31, kings |-> {}, turn |-> Black]

\* get_movers with the edge masks forgotten: the shifts by 3 and 5 wrap
\* around the edges of the board
get_movers_unmasked(b, color) ==
    LET not_occupied == Not(b.whites \cup b.blacks)
    IN  IF color = White
        THEN LET white_kings == b.whites \cap b.kings
                 movers == (Shl(not_occupied, 4)
                            \cup Shl(not_occupied, 3)
                            \cup Shl(not_occupied, 5)) \cap b.whites
             IN  IF white_kings # {}
                 THEN movers
                      \cup (Shr(not_occupied, 4) \cap white_kings)
                      \cup (Shr(not_occupied, 3) \cap white_kings)
                      \cup (Shr(not_occupied, 5) \cap white_kings)
                 ELSE movers
        ELSE LET black_kings == b.blacks \cap b.kings
                 movers == (Shr(not_occupied, 4)
                            \cup Shr(not_occupied, 3)
                            \cup Shr(not_occupied, 5)) \cap b.blacks
             IN  IF black_kings # {}
                 THEN movers
                      \cup (Shl(not_occupied, 4) \cap black_kings)
                      \cup (Shl(not_occupied, 3) \cap black_kings)
                      \cup (Shl(not_occupied, 5) \cap black_kings)
                 ELSE movers

get_movers(b, color) ==
    LET not_occupied == Not(b.whites \cup b.blacks)
    IN  IF color = White
        THEN LET white_kings == b.whites \cap b.kings
                 movers == (Shl(not_occupied, 4)
                            \cup Shl(not_occupied \cap MASK_R3, 3)
                            \cup Shl(not_occupied \cap MASK_R5, 5)) \cap b.whites
             IN  IF white_kings # {}
                 THEN movers
                      \cup (Shr(not_occupied, 4) \cap white_kings)
                      \cup (Shr(not_occupied \cap MASK_L3, 3) \cap white_kings)
                      \cup (Shr(not_occupied \cap MASK_L5, 5) \cap white_kings)
                 ELSE movers
        ELSE LET black_kings == b.blacks \cap b.kings
                 movers == (Shr(not_occupied, 4)
                            \cup Shr(not_occupied \cap MASK_L3, 3)
                            \cup Shr(not_occupied \cap MASK_L5, 5)) \cap b.blacks
             IN  IF black_kings # {}
                 THEN movers
                      \cup (Shl(not_occupied, 4) \cap black_kings)
                      \cup (Shl(not_occupied \cap MASK_R3, 3) \cap black_kings)
                      \cup (Shl(not_occupied \cap MASK_R5, 5) \cap black_kings)
                 ELSE movers

\* get_jumpers with the edge masks forgotten
get_jumpers_unmasked(b, color) ==
    LET not_occupied == Not(b.whites \cup b.blacks)
    IN  IF color = White
        THEN LET white_kings == b.whites \cap b.kings
                 temp1 == Shl(not_occupied, 4) \cap b.blacks
                 temp2 == (Shl(not_occupied, 3)
                           \cup Shl(not_occupied, 5)) \cap b.blacks
                 jumpers == (Shl(temp1, 3)
                             \cup Shl(temp1, 5)
                             \cup Shl(temp2, 4)) \cap b.whites
                 temp3 == Shr(not_occupied, 4) \cap b.blacks
                 temp4 == (Shr(not_occupied, 3)
                           \cup Shr(not_occupied, 5)) \cap b.blacks
             IN  IF white_kings # {}
                 THEN jumpers
                      \cup ((Shr(temp3, 3) \cup Shr(temp3, 5))
                            \cap white_kings)
                      \cup (Shr(temp4, 4) \cap white_kings)
                 ELSE jumpers
        ELSE LET black_kings == b.blacks \cap b.kings
                 temp1 == Shr(not_occupied, 4) \cap b.whites
                 temp2 == (Shr(not_occupied, 3)
                           \cup Shr(not_occupied, 5)) \cap b.whites
                 jumpers == (Shr(temp1, 3)
                             \cup Shr(temp1, 5)
                             \cup Shr(temp2, 4)) \cap b.blacks
                 temp3 == Shl(not_occupied, 4) \cap b.whites
                 temp4 == (Shl(not_occupied, 3)
                           \cup Shl(not_occupied, 5)) \cap b.whites
             IN  IF black_kings # {}
                 THEN jumpers
                      \cup ((Shl(temp3, 3) \cup Shl(temp3, 5))
                            \cap black_kings)
                      \cup (Shl(temp4, 4) \cap black_kings)
                 ELSE jumpers

get_jumpers(b, color) ==
    LET not_occupied == Not(b.whites \cup b.blacks)
    IN  IF color = White
        THEN LET white_kings == b.whites \cap b.kings
                 temp1 == Shl(not_occupied, 4) \cap b.blacks
                 temp2 == (Shl(not_occupied \cap MASK_R3, 3)
                           \cup Shl(not_occupied \cap MASK_R5, 5)) \cap b.blacks
                 jumpers == (Shl(temp1 \cap MASK_R3, 3)
                             \cup Shl(temp1 \cap MASK_R5, 5)
                             \cup Shl(temp2, 4)) \cap b.whites
                 temp3 == Shr(not_occupied, 4) \cap b.blacks
                 temp4 == (Shr(not_occupied \cap MASK_L3, 3)
                           \cup Shr(not_occupied \cap MASK_L5, 5)) \cap b.blacks
             IN  IF white_kings # {}
                 THEN jumpers
                      \cup ((Shr(temp3 \cap MASK_L3, 3) \cup Shr(temp3 \cap MASK_L5, 5))
                            \cap white_kings)
                      \cup (Shr(temp4, 4) \cap white_kings)
                 ELSE jumpers
        ELSE LET black_kings == b.blacks \cap b.kings
                 temp1 == Shr(not_occupied, 4) \cap b.whites
                 temp2 == (Shr(not_occupied \cap MASK_L3, 3)
                           \cup Shr(not_occupied \cap MASK_L5, 5)) \cap b.whites
                 jumpers == (Shr(temp1 \cap MASK_L3, 3)
                             \cup Shr(temp1 \cap MASK_L5, 5)
                             \cup Shr(temp2, 4)) \cap b.blacks
                 temp3 == Shl(not_occupied, 4) \cap b.whites
                 temp4 == (Shl(not_occupied \cap MASK_R3, 3)
                           \cup Shl(not_occupied \cap MASK_R5, 5)) \cap b.whites
             IN  IF black_kings # {}
                 THEN jumpers
                      \cup ((Shl(temp3 \cap MASK_R3, 3) \cup Shl(temp3 \cap MASK_R5, 5))
                            \cap black_kings)
                      \cup (Shl(temp4, 4) \cap black_kings)
                 ELSE jumpers

is_empty(b, position) == position \notin b.whites /\ position \notin b.blacks

is_king(b, position) == position \in b.kings

coloring_eq(b, position, color) ==
    position \in (IF color = White THEN b.whites ELSE b.blacks)

\* remove_piece with the kings mask forgotten
remove_piece_keeps_kings(b, position) ==
    [b EXCEPT !.whites = @ \ Bit(position),
              !.blacks = @ \ Bit(position)]

remove_piece(b, position) ==
    [b EXCEPT !.whites = @ \ Bit(position),
              !.blacks = @ \ Bit(position),
              !.kings = @ \ Bit(position)]

\* add_piece that never sets the kings mask
add_piece_never_crowns(b, position, color, king) ==
    [b EXCEPT !.blacks = IF color = Black THEN @ \cup Bit(position) ELSE @,
              !.whites = IF color = White THEN @ \cup Bit(position) ELSE @]

add_piece(b, position, color, king) ==
    [b EXCEPT !.blacks = IF color = Black THEN @ \cup Bit(position) ELSE @,
              !.whites = IF color = White THEN @ \cup Bit(position) ELSE @,
              !.kings = IF king THEN @ \cup Bit(position) ELSE @]

\* The directions a piece on `position` is tried in, in the code's order.
DirectionsFor(b, position) ==
    (IF b.turn = White THEN <<UpLeft, UpRight>> ELSE <<DownLeft, DownRight>>)
    \o (IF is_king(b, position)
        THEN (IF b.turn = White THEN <<DownLeft, DownRight>> ELSE <<UpLeft, UpRight>>)
        ELSE << >>)

\* In the Jump filter the two unwraps cannot fail: p is position -9, -7, +7
\* or +9, for which between is defined, and relative_to is defined wherever
\* relative_jump_from is.
next_position_possibilities(b, position, atype) ==
    LET opponent_color == Opponent(b.turn)
        directions == DirectionsFor(b, position)
        target(d) == IF atype = Move THEN relative_to(d, position)
                     ELSE relative_jump_from(d, position)
        keep(p) ==
            /\ atype = Jump =>
                 LET dir == CHOOSE d \in between(position, p) : TRUE
                     over == CHOOSE q \in relative_to(dir, position) : TRUE
                 IN  coloring_eq(b, over, opponent_color)
            /\ is_empty(b, p)
        collect[i \in 0..Len(directions)] ==
            IF i = 0 THEN << >>
            ELSE LET o == target(directions[i])
                 IN  IF o # {} /\ keep(CHOOSE p \in o : TRUE)
                     THEN Append(collect[i - 1], CHOOSE p \in o : TRUE)
                     ELSE collect[i - 1]
    IN  collect[Len(directions)]

InProgress == "InProgress"

\* get_game_state with the captures forgotten: a side without a simple move
\* has lost
get_game_state_ignores_jumpers(b) ==
    IF b.turn = Black /\ get_movers(b, Black) = {}
    THEN [completed |-> TRUE, winner |-> White]
    ELSE IF b.turn = White /\ get_movers(b, White) = {}
    THEN [completed |-> TRUE, winner |-> Black]
    ELSE [completed |-> FALSE, winner |-> InProgress]

get_game_state(b) ==
    IF b.turn = Black /\ get_movers(b, Black) = {} /\ get_jumpers(b, Black) = {}
    THEN [completed |-> TRUE, winner |-> White]
    ELSE IF b.turn = White /\ get_movers(b, White) = {} /\ get_jumpers(b, White) = {}
    THEN [completed |-> TRUE, winner |-> Black]
    ELSE [completed |-> FALSE, winner |-> InProgress]

SetMax(S) == CHOOSE x \in S : \A y \in S : y <= x

SetMin(S) == CHOOSE x \in S : \A y \in S : x <= y

RECURSIVE PopOrder(_, _)
\* the order in which pop_piece empties a mask: lowest bit first for White,
\* highest bit first for Black
PopOrder(mask, color) ==
    IF mask = {} THEN << >>
    ELSE LET position == IF color = White THEN SetMin(mask) ELSE SetMax(mask)
         IN  <<position>> \o PopOrder(mask \ {position}, color)

EndsAsKing(starts_as_king, dest) ==
    LET dest_row == dest \div 4
    IN  starts_as_king \/ dest_row = 0 \/ dest_row = 7

External(positions) == [i \in 1..Len(positions) |-> (positions[i] + 1) % 256]

\* One entry of the list generate_all_actions returns (ActionStatePair).
Triple(a, s, z) == [action |-> a, state |-> s, zobrist_diff |-> z]

\* The ActionType::Move arm of generate_all_actions.
GenerateMoves(self) ==
    LET movers == PopOrder(get_movers(self, self.turn), self.turn)
        ForMover(mover) ==
            LET move_candidates == next_position_possibilities(self, mover, Move)
                starts_as_king == is_king(self, mover)
            IN  [i \in 1..Len(move_candidates) |->
                   LET candidate == move_candidates[i]
                       action == from_vector(External(<<mover, candidate>>)).action
                       ends_as_king == EndsAsKing(starts_as_king, candidate)
                       board_p == [remove_piece(add_piece(self, candidate, self.turn,
                                                          ends_as_king), mover)
                                   EXCEPT !.turn = Opponent(self.turn)]
                       zobrist_hash ==
                           ZXor(ZXor(get_position_hash(mover, self.turn, starts_as_king),
                                     get_position_hash(candidate, self.turn, ends_as_king)),
                                get_turn_hash)
                   IN  Triple(action, board_p, zobrist_hash)]
        all[i \in 0..Len(movers)] ==
            IF i = 0 THEN << >> ELSE all[i - 1] \o ForMover(movers[i])
    IN  all[Len(movers)]

\* The end of the body of `for candidate in jump_candidates`: the chain is
\* complete and becomes a triple, or the board goes back into the queue.
\* zobrist_hash is one variable shared by all candidates of a queue item.
JumpOutcome(prev, action_vec, action, board_p, zh, complete) ==
    IF complete
    THEN [zobrist_hash |-> ZXor(zh, get_turn_hash),
          actions |-> Append(prev.actions,
                             Triple(action, board_p, ZXor(zh, get_turn_hash))),
          pushed |-> prev.pushed]
    ELSE [zobrist_hash |-> zh,
          actions |-> prev.actions,
          pushed |-> Append(prev.pushed,
                            [board |-> board_p, base_action |-> action_vec,
                             zobrist_hash |-> zh])]

\* The hash terms of one hop and the test for further jumps, made for the
\* colour bd.turn of the queue item.
JumpHashed(prev, bd, action_vec, jumper, candidate, skipped_over, starts_as_king, ends_as_king, board_p) ==
    JumpOutcome(prev, action_vec, from_vector(External(action_vec)).action,
                board_p,
                ZXor(ZXor(ZXor(prev.zobrist_hash,
                     get_position_hash(jumper, bd.turn, starts_as_king)),
                     get_position_hash(candidate, bd.turn, ends_as_king)),
                     get_position_hash(skipped_over, board_p.turn,
                                       is_king(bd, skipped_over))),
                (get_jumpers(board_p, bd.turn) \cap Bit(candidate) = {})
                   \/ (~starts_as_king /\ ends_as_king))

\* One hop: the piece is placed with the colour bd.turn of the queue item,
\* and the turn of the new board is the opponent's.
JumpHop(self, bd, base_action, prev, jumper, candidate, skipped_over, starts_as_king, ends_as_king) ==
    JumpHashed(prev, bd, Append(base_action, candidate), jumper, candidate,
               skipped_over, starts_as_king, ends_as_king,
               [remove_piece(remove_piece(
                    add_piece(bd, candidate, bd.turn, ends_as_king),
                    jumper), skipped_over)
                EXCEPT !.turn = Opponent(self.turn)])

\* `for candidate in jump_candidates` for one queue item
JumpHops(self, bd, base_action, jumper, zobrist_hash0, jump_candidates) ==
    LET step[i \in 0..Len(jump_candidates)] ==
            IF i = 0
            THEN [zobrist_hash |-> zobrist_hash0, actions |-> << >>, pushed |-> << >>]
            ELSE JumpHop(self, bd, base_action, step[i - 1], jumper,
                         jump_candidates[i],
                         CHOOSE q \in relative_to(
                             CHOOSE d \in between(jumper, jump_candidates[i]) : TRUE,
                             jumper) : TRUE,
                         is_king(bd, jumper),
                         EndsAsKing(is_king(bd, jumper), jump_candidates[i]))
    IN  step[Len(jump_candidates)]

\* The body of the queue loop for one item.  The candidates come from self
\* (the board generate_all_actions was called on), not from the item's board.
JumpCandidates(self, bd, base_action, jumper, zobrist_hash0) ==
    JumpHops(self, bd, base_action, jumper, zobrist_hash0,
             next_position_possibilities(self, jumper, Jump))

RECURSIVE JumpLoop(_, _, _)
RECURSIVE JumpNext(_, _, _, _)
\* while let Some(..) = boards_in_progress.pop_front()
JumpLoop(self, boards_in_progress, actions) ==
    IF boards_in_progress = << >> THEN actions
    ELSE JumpNext(self, Tail(boards_in_progress), actions,
                  JumpCandidates(self, Head(boards_in_progress).board,
                                 Head(boards_in_progress).base_action,
                                 Head(boards_in_progress).base_action[
                                     Len(Head(boards_in_progress).base_action)],
                                 Head(boards_in_progress).zobrist_hash))

\* the queue and the list of actions after one item
JumpNext(self, rest, actions, r) ==
    JumpLoop(self, rest \o r.pushed, actions \o r.actions)

\* The ActionType::Jump arm of generate_all_actions.
GenerateJumps(self) ==
    LET jumpers == PopOrder(get_jumpers(self, self.turn), self.turn)
        initial == [i \in 1..Len(jumpers) |->
                      [board |-> self, base_action |-> <<jumpers[i]>>,
                       zobrist_hash |-> {}]]
    IN  JumpLoop(self, initial, << >>)

\* generate_all_actions that prefers simple moves to captures
generate_all_actions_moves_first(self) ==
    IF get_game_state(self).completed THEN << >>
    ELSE IF get_movers(self, self.turn) # {} THEN GenerateMoves(self)
    ELSE GenerateJumps(self)

generate_all_actions(self) ==
    IF get_game_state(self).completed THEN << >>
    ELSE IF get_jumpers(self, self.turn) = {} THEN GenerateMoves(self)
    ELSE GenerateJumps(self)

Ok(b) == [tag |-> "Ok", board |-> b]

Err(e) == [tag |-> "Err", err |-> e]

\* an unwrap() of None: the call does not return
Panic == [tag |-> "Panic"]

SourceColorError(position, color) ==
    [name |-> "SourceColorError", position |-> position, color |-> color]

DestinationEmptyError(dest) ==
    [name |-> "DestinationEmptyError", destination |-> dest]

SkippedPositionError(skipped, color) ==
    [name |-> "SkippedPositionError", skipped |-> skipped, color |-> color]

HaveToJumpError == [name |-> "HaveToJumpError"]

SinglePieceBackwardsError == [name |-> "SinglePieceBackwardsError"]

NeedMoreJumpingError == [name |-> "NeedMoreJumpingError"]

IsBackward(dir, turn) ==
    \/ IsUp(dir) /\ turn = Black
    \/ IsDown(dir) /\ turn = White

\* the Move arm without the mandatory-capture test
TakeMove_no_jump_check(self, action, board_p) ==
    IF move_direction(action) = {} THEN Panic
    ELSE LET dir == CHOOSE d \in move_direction(action) : TRUE
         IN  IF IsBackward(dir, self.turn) /\ ~is_king(self, source(action))
             THEN Err(SinglePieceBackwardsError)
             ELSE Ok([board_p EXCEPT !.turn = Opponent(self.turn)])

\* the Move arm without the direction test
TakeMove_no_direction_check(self, action, board_p) ==
    IF get_jumpers(self, self.turn) # {} THEN Err(HaveToJumpError)
    ELSE IF move_direction(action) = {} THEN Panic
    ELSE Ok([board_p EXCEPT !.turn = Opponent(self.turn)])

\* The ActionType::Move arm of take_action.
TakeMove(self, action, board_p) ==
    IF get_jumpers(self, self.turn) # {} THEN Err(HaveToJumpError)
    ELSE IF move_direction(action) = {} THEN Panic
    ELSE LET dir == CHOOSE d \in move_direction(action) : TRUE
         IN  IF IsBackward(dir, self.turn) /\ ~is_king(self, source(action))
             THEN Err(SinglePieceBackwardsError)
             ELSE Ok([board_p EXCEPT !.turn = Opponent(self.turn)])

\* the final test of a chain without the exemption for a promotion
ChainEnd_ignores_promotion(self, action, board_p) ==
    IF get_jumpers(board_p, self.turn) \cap Bit(destination(action)) # {}
    THEN Err(NeedMoreJumpingError)
    ELSE Ok([board_p EXCEPT !.turn = Opponent(self.turn)])

\* The test after the hops of a chain: a further capture from the
\* destination is an error unless the action promoted the piece.
ChainEnd(self, action, board_p) ==
    LET starts_as_king == is_king(self, source(action))
        ends_as_king == EndsAsKing(starts_as_king, destination(action))
    IN  IF (get_jumpers(board_p, self.turn) \cap Bit(destination(action)) # {})
           /\ ~(~starts_as_king /\ ends_as_king)
        THEN Err(NeedMoreJumpingError)
        ELSE Ok([board_p EXCEPT !.turn = Opponent(self.turn)])

RECURSIVE TakeJump(_, _, _, _, _)
\* The ActionType::Jump arm of take_action from hop i on, the piece being
\* on curr and board_p holding the captures made so far.
TakeJump(self, action, board_p, curr, i) ==
    LET starts_as_king == is_king(self, source(action))
        opponent_color == Opponent(self.turn)
    IN  IF i >= jump_len(action)
        THEN ChainEnd(self, action, board_p)
        ELSE LET jump_direction_i == CHOOSE d \in jump_direction(action, i) : TRUE
             IN  IF IsBackward(jump_direction_i, self.turn) /\ ~starts_as_king
                 THEN Err(SinglePieceBackwardsError)
                 ELSE IF relative_to(jump_direction_i, curr) = {} THEN Panic
                 ELSE LET skipped_over == CHOOSE q \in relative_to(jump_direction_i, curr) : TRUE
                      IN  IF ~coloring_eq(self, skipped_over, opponent_color)
                          THEN Err(SkippedPositionError(skipped_over, opponent_color))
                          ELSE IF relative_jump_from(jump_direction_i, curr) = {} THEN Panic
                          ELSE TakeJump(self, action, remove_piece(board_p, skipped_over),
                                        CHOOSE q \in relative_jump_from(jump_direction_i, curr) : TRUE,
                                        i + 1)

\* take_action with the test of the destination before the test of the source
take_action_destination_first(self, action) ==
    LET src == source(action)
        dst == destination(action)
        starts_as_king == is_king(self, src)
        ends_as_king == EndsAsKing(starts_as_king, dst)
        board_p == add_piece(remove_piece(self, src), dst, self.turn, ends_as_king)
    IN  IF ~is_empty(self, dst)
        THEN Err(DestinationEmptyError(dst))
        ELSE IF ~coloring_eq(self, src, self.turn)
        THEN Err(SourceColorError(src, self.turn))
        ELSE IF action_type(action) = Move
        THEN TakeMove(self, action, board_p)
        ELSE TakeJump(self, action, board_p, src, 0)

take_action(self, action) ==
    LET src == source(action)
        dst == destination(action)
        starts_as_king == is_king(self, src)
        ends_as_king == EndsAsKing(starts_as_king, dst)
        board_p == add_piece(remove_piece(self, src), dst, self.turn, ends_as_king)
    IN  IF ~coloring_eq(self, src, self.turn)
        THEN Err(SourceColorError(src, self.turn))
        ELSE IF ~is_empty(self, dst)
        THEN Err(DestinationEmptyError(dst))
        ELSE IF action_type(action) = Move
        THEN TakeMove(self, action, board_p)
        ELSE TakeJump(self, action, board_p, src, 0)

validate_action(self, action) ==
    LET r == take_action(self, action)
    IN  IF r.tag = "Ok" THEN [tag |-> "Ok"] ELSE r

RECURSIVE XorPieces(_, _, _)
\* the two while loops of zobrist_hash
XorPieces(b, order, color) ==
    IF order = << >> THEN {}
    ELSE ZXor(get_position_hash(Head(order), color, is_king(b, Head(order))),
              XorPieces(b, Tail(order), color))

zobrist_hash(b) ==
    LET pieces == ZXor(XorPieces(b, PopOrder(b.blacks, Black), Black),
                       XorPieces(b, PopOrder(b.whites, White), White))
    IN  IF b.turn = White THEN ZXor(pieces, get_turn_hash) ELSE pieces

RECURSIVE count_ones(_, _)
\* the closure count_ones of the default evaluator: the loop while mask != 0
\* with the count so far; the f32 counts are small integers
count_ones(mask, count) ==
    IF mask = {} THEN count
    ELSE count_ones(Shr(mask, 1), IF 0 \in mask THEN count + 1 ELSE count)

\* the default evaluator without the two king terms
evaluate_without_kings(b) ==
    count_ones(b.blacks, 0) - count_ones(b.whites, 0)

\* BoardEvaluator::default
evaluate(b) ==
    count_ones(b.blacks, 0) - count_ones(b.whites, 0)
    + count_ones(b.blacks \cap b.kings, 0) - count_ones(b.whites \cap b.kings, 0)

-----------------------------------------------------------------------------
(* Transposition table                                                     *)

DEFAULT_FLAG == 255

CLUSTER_SIZE == 3

\* mem::size_of::<Cluster<Bitboard>>() on a 64-bit target: three entries of
\* 24 bytes and the 12 bytes of the RwLock
cluster_size == 84

DefaultEntry ==
    [state |-> DefaultBoard, depth |-> DEFAULT_FLAG, score |-> 0, generation |-> 0]

\* [TTEntry::default(); 3]
DefaultCluster == [i \in 1..CLUSTER_SIZE |-> DefaultEntry]

\* size_b / cluster_size of new and resize
n_clusters(size_mb) == (size_mb * 1024 * 1024) \div cluster_size

\* TranspositionTable::new.  Of the n_clusters clusters the field clusters
\* lists those a save has written to; every other one holds what new put
\* into it.
new(size_mb) ==
    [clusters |-> << >>,
     n_clusters |-> n_clusters(size_mb),
     generation |-> 1,
     panicked |-> FALSE]

\* the table of Engine::new
NewTable == new(256)

\* self.clusters[key]
ClusterAt(T, key) ==
    IF key \in DOMAIN T.clusters THEN T.clusters[key] ELSE DefaultCluster

\* cluster[i] = entry on self.clusters[key]
WithEntry(T, key, i, entry) ==
    [T EXCEPT !.clusters =
        [k \in (DOMAIN T.clusters) \cup {key} |->
            IF k = key THEN [ClusterAt(T, key) EXCEPT ![i] = entry]
            ELSE T.clusters[k]]]

\* u8 arithmetic of replace_value: the wrapped value, and whether one of the
\* three operations left the u8 range
replace_value(e, current_generation) ==
    LET diff == current_generation - e.generation
        prod == 4 * (diff % 256)
        val == e.depth - (prod % 256)
    IN  [value |-> val % 256,
         overflow |-> diff < 0 \/ prod > 255 \/ val < 0]

\* self.generation += 1 on a u8
new_search(T, checks) ==
    IF T.generation = 255 /\ checks
    THEN [T EXCEPT !.panicked = TRUE]
    ELSE [T EXCEPT !.generation = (@ + 1) % 256]

RECURSIVE SaveLoop(_, _, _, _, _)
\* for i in 0..CLUSTER_SIZE of save, from slot i on (slots count from 1)
SaveLoop(T, key, entry, checks, i) ==
    IF i > CLUSTER_SIZE THEN T
    ELSE LET slot == ClusterAt(T, key)[i]
             mine == replace_value(entry, T.generation)
             theirs == replace_value(slot, T.generation)
         IN  IF checks /\ (mine.overflow \/ theirs.overflow)
             THEN [T EXCEPT !.panicked = TRUE]
             ELSE IF mine.value > theirs.value \/ slot.depth = DEFAULT_FLAG
             THEN WithEntry(T, key, i, entry)
             ELSE SaveLoop(T, key, entry, checks, i + 1)

\* zobrist_hash as usize % self.n_clusters panics on a table without
\* clusters, in every build
save(T, hash, state, depth, score, checks) ==
    LET entry == [state |-> state, depth |-> depth, score |-> score,
                  generation |-> T.generation]
    IN  IF T.n_clusters = 0 THEN [T EXCEPT !.panicked = TRUE]
        ELSE SaveLoop(T, hash % T.n_clusters, entry, checks, 1)

\* the loop of probe over the cluster: Option<Score>, {} or {score}
ProbeLoop(cluster, state, depth) ==
    LET hits == {i \in 1..CLUSTER_SIZE :
                    cluster[i].depth >= depth /\ cluster[i].state = state}
    IN  IF hits = {} THEN {} ELSE {cluster[SetMin(hits)].score}

\* probe: Ok with the Option<Score>, or the panic of the remainder on a
\* table without clusters
probe(T, hash, state, depth) ==
    IF T.n_clusters = 0 THEN [tag |-> "Panic"]
    ELSE [tag |-> "Ok",
          value |-> ProbeLoop(ClusterAt(T, hash % T.n_clusters), state, depth)]

\* TranspositionTable::resize
resize(T, size_mb) == new(size_mb)

-----------------------------------------------------------------------------
(* Positions and inputs                                                    *)

\* longest capture chain (in hops) offered to take_action
MaxHops == 4

\* number of times a caller moves on to a resulting board
MaxPly == 1

\* boards of the repository's tests: bitboard.rs TEST_BOARD_1 .. TEST_BOARD_7
TestBoard1 ==
    [blacks |-> {11, 15, 19, 21, 24, 28}, whites |-> {9, 14, 17, 23, 26, 27},
     kings |-> {9, 14, 21, 24, 28}, turn |-> Black]

TestBoard2 ==
    [blacks |-> {14, 21, 24, 31}, whites |-> {8, 10, 18, 25, 26, 29},
     kings |-> {10, 25, 31}, turn |-> White]

TestBoard3 ==
    [blacks |-> {5, 6, 7, 17, 18, 20, 30}, whites |-> {2, 10, 22, 24, 25, 26},
     kings |-> {2, 30}, turn |-> Black]

TestBoard4 == [blacks |-> {}, whites |-> {2, 10}, kings |-> {10}, turn |-> Black]

TestBoard5 == [blacks |-> {}, whites |-> {}, kings |-> {}, turn |-> White]

TestBoard6 == [blacks |-> {10}, whites |-> {5}, kings |-> {}, turn |-> White]

TestBoard7 == [blacks |-> {7}, whites |-> {10, 17, 25, 26}, kings |-> {}, turn |-> Black]

\* B:W9,10:B6 -- one man with two alternative captures
TwoCaptures == [blacks |-> {5}, whites |-> {8, 9}, kings |-> {}, turn |-> Black]

\* B:W26,27:B22 -- a capture that promotes next to a further capture
PromoteCapture == [blacks |-> {21}, whites |-> {25, 26}, kings |-> {}, turn |-> Black]

\* B:W10,11:BK6 -- a king whose second capture goes backwards
KingChain == [blacks |-> {5}, whites |-> {9, 10}, kings |-> {5}, turn |-> Black]

\* W:W25:B14,22 -- a white man with a chain of two captures
WhiteChain == [blacks |-> {13, 21}, whites |-> {24}, kings |-> {}, turn |-> White]

InitBoards ==
    {DefaultBoard, TestBoard1, TestBoard2, TestBoard3, TestBoard4, TestBoard5,
     TestBoard6, TestBoard7, TwoCaptures, PromoteCapture, KingChain, WhiteChain}

BoardInvariants(b) ==
    /\ b.blacks \cap b.whites = {}
    /\ b.kings \subseteq (b.blacks \cup b.whites)

External1 == 1..32

\* every list of two squares that from_vector can turn into an Action
PairInputs ==
    {<<p, q>> : p \in External1, q \in External1} 

RECURSIVE ChainsFrom(_, _)
\* the lists that extend a list of S by k steps of -9, -7, +7 or +9
ChainsFrom(S, k) ==
    IF k = 0 THEN S
    ELSE LET ext == UNION {{Append(s, q) :
                               q \in {s[Len(s)] + d : d \in {0 - 9, 0 - 7, 7, 9}}
                                     \cap External1} : s \in S}
         IN  ext \cup ChainsFrom(ext, k - 1)

\* the chains of 2 .. MaxHops hops that start on a piece of the side to move
ChainInputs(b) ==
    LET mine == IF b.turn = Black THEN b.blacks ELSE b.whites
        one == ChainsFrom({<<p + 1>> : p \in mine}, 1)
    IN  ChainsFrom(one, MaxHops - 1)

\* the Actions offered to take_action on board b
ActionInputs(b) ==
    {from_vector(v).action :
        v \in {w \in PairInputs \cup ChainInputs(b) : from_vector(w).ok}}

-----------------------------------------------------------------------------
(* Specification of the board: calls of take_action and of                 *)
(* generate_all_actions on boards reached from the initial ones.           *)

NoCall == [op |-> "none"]

\* no time-bounded search is under way
\* no thread works on the table / no command line session runs
NoConc == [lock |-> "none"]

NoApp == [history |-> "none"]

NoIddfs == [caller |-> "idle"]

\* the State of the command line (app.rs) whose board is the variable board:
\*   app.history   State::action_history
\*   app.start     the board of the last fen-set or clear (of default())
\*   app.applied   the actions take_action returned Ok for since then
\*   app.last      the last command, with the board and the history it
\*                 found and the result of its take_action
\*   app.commands  the number of commands executed
\*   app.running   FALSE once a command has panicked

\* the State after default() (op "default") or after the command fen with
\* board b (op "fen")
Session(op, b) ==
    [history |-> << >>, start |-> b, applied |-> << >>,
     last |-> [op |-> op, board |-> b, history |-> << >>, result |-> Ok(b)],
     commands |-> 0, running |-> TRUE]

\* what a command records of the state it found
AppFound(op, result) ==
    [op |-> op, board |-> board, history |-> app.history, result |-> result]

\* State::take_action with the result r of self.board.take_action(action):
\* a panic ends the process before the push
AppTaken(action, r) ==
    /\ board' = IF r.tag = "Ok" THEN r.board ELSE board
    /\ app' = IF r.tag = "Panic"
              THEN [app EXCEPT !.last = AppFound("take", r),
                               !.commands = @ + 1, !.running = FALSE]
              ELSE [app EXCEPT !.history = Append(@, action),
                               !.applied = IF r.tag = "Ok"
                                           THEN Append(@, action) ELSE @,
                               !.last = AppFound("take", r),
                               !.commands = @ + 1]

\* a session of the command line whose board was set with the command fen
Init ==
    /\ board \in InitBoards
    /\ ply = 0
    /\ last = NoCall
    /\ overflow_checks = TRUE
    /\ tt = NewTable
    /\ saves = << >>
    /\ tlast = NoCall
    /\ iddfs = NoIddfs
    /\ conc = NoConc
    /\ app = Session("fen", board)

\* board.take_action(&action) for an offered action: the result is recorded
TakeAction ==
    /\ last = NoCall
    /\ \E a \in ActionInputs(board) :
          last' = [op |-> "take_action", action |-> a, result |-> take_action(board, a)]
    /\ UNCHANGED <<board, ply, overflow_checks, tt, saves, tlast, iddfs, conc, app>>

\* board.generate_all_actions(): the whole list is computed, one entry of it
\* is recorded
GenerateAllActions ==
    /\ last = NoCall
    /\ LET all == generate_all_actions(board)
       IN  \E i \in DOMAIN all :
              last' = [op |-> "generate_all_actions", index |-> i,
                       action |-> all[i].action, state |-> all[i].state,
                       zobrist_diff |-> all[i].zobrist_diff]
    /\ UNCHANGED <<board, ply, overflow_checks, tt, saves, tlast, iddfs, conc, app>>

\* the command take, State::take_action, given an action that the call
\* recorded in last returned Ok for
Advance ==
    /\ ply < MaxPly
    /\ last # NoCall
    /\ last.op = "take_action"
    /\ last.result.tag = "Ok"
    /\ AppTaken(last.action, take_action(board, last.action))
    /\ ply' = ply + 1
    /\ last' = NoCall
    /\ UNCHANGED <<overflow_checks, tt, saves, tlast, iddfs, conc>>

Next ==
    \/ TakeAction
    \/ GenerateAllActions
    \/ Advance

Spec == Init /\ [][Next]_vars

-----------------------------------------------------------------------------
(* Rules of the game, stated on squares (used by the properties only)      *)

Mine(b, color) == IF color = Black THEN b.blacks ELSE b.whites

\* Up is backward for Black, Down is backward for White
BackwardFor(d, color) ==
    d \in (IF color = Black THEN {UpLeft, UpRight} ELSE {DownLeft, DownRight})

\* the directions the piece on p may go: forward for a man, all for a king
AllowedDirections(b, p, color) ==
    IF p \in b.kings THEN Directions
    ELSE IF color = Black THEN {DownLeft, DownRight} ELSE {UpLeft, UpRight}

\* the piece of `color` on p has an opponent on a neighbouring square and
\* an empty square right behind it
CanCaptureFrom(b, p, color) ==
    /\ p \in Mine(b, color)
    /\ \E d \in AllowedDirections(b, p, color) :
          /\ relative_to(d, p) # {}
          /\ relative_to(d, p) \subseteq Mine(b, Opponent(color))
          /\ relative_jump_from(d, p) # {}
          /\ relative_jump_from(d, p) \cap (b.blacks \cup b.whites) = {}

FarRow(color) == IF color = Black THEN 28..31 ELSE 0..3

\* the action turns the man on its source into a king
Promotes(b, a) == source(a) \notin b.kings /\ destination(a) \in FarRow(b.turn)

RECURSIVE HopSquares(_, _, _)
\* the squares a chain jumps over, from hop i on with the piece on curr;
\* a hop that leaves the board ends the walk
HopSquares(a, curr, i) ==
    IF i > jump_len(a) THEN {}
    ELSE LET over == relative_to(a.dirs[i], curr)
             land == relative_jump_from(a.dirs[i], curr)
         IN  IF over = {} \/ land = {} THEN over
             ELSE over \cup HopSquares(a, CHOOSE q \in land : TRUE, i + 1)

\* the board after a chain: source cleared, jumped squares cleared, the piece
\* on the destination (a king if it was one or is promoted), turn not flipped
AfterChain(b, a) ==
    LET over == HopSquares(a, source(a), 1)
        king == source(a) \in b.kings \/ Promotes(b, a)
        me == (Mine(b, b.turn) \ {source(a)}) \cup {destination(a)}
        opp == Mine(b, Opponent(b.turn)) \ over
    IN  [blacks |-> IF b.turn = Black THEN me ELSE opp,
         whites |-> IF b.turn = White THEN me ELSE opp,
         kings |-> ((b.kings \ {source(a)}) \ over)
                   \cup (IF king THEN {destination(a)} ELSE {}),
         turn |-> b.turn]

RECURSIVE Cursor(_, _)
\* where the piece stands after the first k hops of a chain ({} once a hop
\* left the board)
Cursor(a, k) ==
    IF k = 0 THEN {source(a)}
    ELSE LET c == Cursor(a, k - 1)
         IN  IF c = {} THEN {}
             ELSE relative_jump_from(a.dirs[k], CHOOSE q \in c : TRUE)

\* hop j of the chain jumps from an on-board square over a piece of the
\* opponent onto an on-board square
HopPasses(b, a, j) ==
    /\ Cursor(a, j - 1) # {}
    /\ LET c == CHOOSE q \in Cursor(a, j - 1) : TRUE
       IN  /\ relative_to(a.dirs[j], c) # {}
           /\ relative_to(a.dirs[j], c) \subseteq Mine(b, Opponent(b.turn))
           /\ relative_jump_from(a.dirs[j], c) # {}

\* the directions an action moves in, step or hops
ActionDirections(a) ==
    IF jump_len(a) = 0 THEN between(source(a), destination(a))
    ELSE {a.dirs[i] : i \in 1..jump_len(a)}

RECURSIVE CountIn(_, _)
\* how often action a occurs in a list of triples
CountIn(list, a) ==
    IF list = << >> THEN 0
    ELSE (IF Head(list).action = a THEN 1 ELSE 0) + CountIn(Tail(list), a)

Generated == last.op = "generate_all_actions"

Taken == last.op = "take_action"

Accepted == Taken /\ last.result.tag = "Ok"

-----------------------------------------------------------------------------
(* Properties of the board                                                 *)

\* C1: every triple (a, s, delta) that generate_all_actions(b) returns on a
\* board satisfying the invariants has validate_action(b, a) = Ok and
\* take_action(b, a) = Ok(s), chains of two or more jumps included.
C1_GeneratedIsValid ==
    (Generated /\ BoardInvariants(board)) =>
        /\ validate_action(board, last.action).tag = "Ok"
        /\ take_action(board, last.action) = Ok(last.state)

\* B:W11,18,26,27:B8 -- the one generated action 8-15-22 stops short of the
\* third capture, and its state holds the jumper as a white piece
C1_Failing ==
    /\ Generated
    /\ board = TestBoard7
    /\ last.action = [source |-> 7, destination |-> 21, jump_len |-> 2,
                      dirs |-> <<DownLeft, DownLeft>>]
    /\ last.state = [blacks |-> {}, whites |-> {21, 25, 26}, kings |-> {},
                     turn |-> White]
    /\ take_action(board, last.action) = Err(NeedMoreJumpingError)

\* C2: every action that validate_action accepts on a board satisfying the
\* invariants occurs exactly once in generate_all_actions of that board.
C2_ValidIsGeneratedOnce ==
    (Accepted /\ BoardInvariants(board)) =>
        CountIn(generate_all_actions(board), last.action) = 1

\* B:W10,11:BK6 -- the king's chain 6-15-8 is accepted and not generated
C2_Failing ==
    /\ Accepted
    /\ board = KingChain
    /\ last.action = [source |-> 5, destination |-> 7, jump_len |-> 2,
                      dirs |-> <<DownRight, UpRight>>]
    /\ last.result = Ok([blacks |-> {7}, whites |-> {}, kings |-> {7},
                         turn |-> White])
    /\ generate_all_actions(board) = << >>

\* C3: for every triple (a, s, delta) of generate_all_actions(b),
\* zobrist_hash(b) XOR delta = zobrist_hash(s).
C3_ZobristDelta ==
    Generated => ZXor(zobrist_hash(board), last.zobrist_diff) = zobrist_hash(last.state)

\* B:W9,10:B6 -- the delta of the second capture 6-15 carries the terms of
\* the first capture 6-13
C3_Failing ==
    /\ Generated
    /\ board = TwoCaptures
    /\ last.action = [source |-> 5, destination |-> 14, jump_len |-> 1,
                      dirs |-> <<DownRight>>]
    /\ last.state = [blacks |-> {14}, whites |-> {8}, kings |-> {},
                     turn |-> White]
    /\ last.zobrist_diff = {12, 14, 40, 41}
    /\ ZXor(zobrist_hash(board), zobrist_hash(last.state)) = {5, 14, 41, 96}

\* C4: every board reached from an initial board by successful take_action
\* calls or by the resulting states of generate_all_actions has
\* blacks & whites = 0 and kings within blacks | whites.
C4_BoardInvariants ==
    /\ BoardInvariants(board)
    /\ Accepted => BoardInvariants(last.result.board)
    /\ Generated => BoardInvariants(last.state)

\* C4 witness: a capture chain was taken on a board reached by earlier play
C4_Witness ==
    /\ ply > 0
    /\ Accepted
    /\ jump_len(last.action) >= 1
    /\ last.result.board.kings # {}

\* C5: when jumpers(b, b.turn) is not empty, every action that
\* generate_all_actions(b) returns has jump_len >= 1.
C5_OnlyCapturesWhenJumpers ==
    (Generated /\ get_jumpers(board, board.turn) # {}) => jump_len(last.action) >= 1

\* C5 witness: an action generated while a capture is available
C5_Witness ==
    /\ Generated
    /\ get_jumpers(board, board.turn) # {}
    /\ get_movers(board, board.turn) # {}

\* C6: a simple move whose source holds a piece of the side to move and
\* whose destination is empty is rejected with HaveToJumpError whenever a
\* piece of the side to move can capture; no simple move is accepted while
\* jumpers(turn) is not empty.
C6_HaveToJump ==
    (Taken /\ jump_len(last.action) = 0) =>
        /\ (/\ coloring_eq(board, source(last.action), board.turn)
            /\ is_empty(board, destination(last.action))
            /\ \/ \E p \in Squares : CanCaptureFrom(board, p, board.turn)
               \/ get_jumpers(board, board.turn) # {})
           => last.result = Err(HaveToJumpError)
        /\ get_jumpers(board, board.turn) # {} => last.result.tag # "Ok"

\* C6 witness: an otherwise legal forward step tried while a capture exists
C6_Witness ==
    /\ Taken
    /\ jump_len(last.action) = 0
    /\ last.result = Err(HaveToJumpError)
    /\ destination(last.action) \in
         UNION {relative_to(d, source(last.action)) :
                  d \in AllowedDirections(board, source(last.action), board.turn)}

\* C7: a capture chain that passes the checks on source, destination and
\* hops is rejected with NeedMoreJumpingError exactly when the piece, placed
\* on the destination after the captured pieces are removed, can capture
\* again and the action did not promote it; a promoting chain is accepted
\* even if a further capture exists.
C7_NeedMoreJumping ==
    (/\ Taken
     /\ jump_len(last.action) >= 1
     /\ last.result.tag = "Ok" \/ last.result = Err(NeedMoreJumpingError))
    => (last.result = Err(NeedMoreJumpingError)
        <=> /\ CanCaptureFrom(AfterChain(board, last.action),
                              destination(last.action), board.turn)
            /\ ~Promotes(board, last.action))

\* C7 witness: an accepted chain that promotes where a further capture exists
C7_Witness ==
    /\ Accepted
    /\ jump_len(last.action) >= 1
    /\ Promotes(board, last.action)
    /\ CanCaptureFrom(AfterChain(board, last.action),
                      destination(last.action), board.turn)

\* C7, the rejected case: a chain stopped short of a further capture
C7_Rejected ==
    /\ Taken
    /\ last.result = Err(NeedMoreJumpingError)

\* C8: no accepted action moves a piece that was not a king in a backward
\* direction at any step or hop; an action of a man whose first failing
\* check is the direction check fails with SinglePieceBackwardsError (so a
\* man that reaches the king row cannot continue backwards); kings are
\* accepted in all four directions.
C8_NoBackwardMan ==
    Taken =>
        /\ (last.result.tag = "Ok" /\ source(last.action) \notin board.kings)
           => \A d \in ActionDirections(last.action) : ~BackwardFor(d, board.turn)
        /\ (/\ source(last.action) \in Mine(board, board.turn) \ board.kings
            /\ is_empty(board, destination(last.action))
            /\ jump_len(last.action) = 0
            /\ get_jumpers(board, board.turn) = {}
            /\ \E d \in between(source(last.action), destination(last.action)) :
                  BackwardFor(d, board.turn))
           => last.result = Err(SinglePieceBackwardsError)
        /\ (/\ source(last.action) \in Mine(board, board.turn) \ board.kings
            /\ is_empty(board, destination(last.action))
            /\ jump_len(last.action) >= 1
            /\ \E i \in 1..jump_len(last.action) :
                  /\ BackwardFor(last.action.dirs[i], board.turn)
                  /\ \A j \in 1..(i - 1) :
                        /\ ~BackwardFor(last.action.dirs[j], board.turn)
                        /\ HopPasses(board, last.action, j))
           => last.result = Err(SinglePieceBackwardsError)
        /\ last.result = Err(SinglePieceBackwardsError)
           => /\ source(last.action) \notin board.kings
              /\ \E d \in ActionDirections(last.action) : BackwardFor(d, board.turn)

\* C8 witness: a man that reached the king row by two or more captures
\* tries to continue the chain backwards
C8_Witness ==
    /\ Taken
    /\ source(last.action) \in Mine(board, board.turn) \ board.kings
    /\ jump_len(last.action) >= 3
    /\ last.result = Err(SinglePieceBackwardsError)
    /\ LET n == jump_len(last.action)
       IN  /\ BackwardFor(last.action.dirs[n], board.turn)
           /\ \A j \in 1..(n - 1) :
                 /\ ~BackwardFor(last.action.dirs[j], board.turn)
                 /\ HopPasses(board, last.action, j)
           /\ Cursor(last.action, n - 1) \subseteq FarRow(board.turn)

\* a king accepted moving or capturing backwards
C8_KingBackward ==
    /\ Accepted
    /\ source(last.action) \in board.kings
    /\ \E d \in ActionDirections(last.action) : BackwardFor(d, board.turn)

-----------------------------------------------------------------------------
(* Specification of the transposition table: new, new_search, save, probe  *)
(* and resize called on one table, in a build with or without overflow     *)
(* checks.  `saves` lists the saves made since the table was created or    *)
(* resized.                                                                *)

\* most saves between two resizes
MaxSaves == 2

\* searches started on one table
MaxGeneration == 3

\* the sizes in megabytes a table is made with: none, the smallest, and
\* that of Engine::new
TTSizes == {0, 1, 256}

\* hashes of two clusters of a table of n clusters; the first and the last
\* of them fall into the same cluster
TTHashes(n) == {0, 1, n}

TTStates == {DefaultBoard, TestBoard6}

TTDepths == {0, 2}

TTScores == {1}

\* the generations a table starts from: that of a new table, and the one
\* MaxGeneration searches before the counter is full (a table that served
\* that many searches which saved nothing, such as searches to depth 0)
StartGenerations == {1, 256 - MaxGeneration}

InitTT ==
    /\ board = DefaultBoard
    /\ ply = 0
    /\ last = NoCall
    /\ overflow_checks \in BOOLEAN
    /\ tt \in {[new(mb) EXCEPT !.generation = g] :
                    mb \in TTSizes, g \in StartGenerations}
    /\ saves = << >>
    /\ tlast = NoCall
    /\ iddfs = NoIddfs
    /\ conc = NoConc
    /\ app = NoApp

TTNewSearch ==
    /\ ~tt.panicked
    /\ tt.generation < MaxGeneration \/ tt.generation >= 256 - MaxGeneration
    /\ tt' = new_search(tt, overflow_checks)
    /\ tlast' = [op |-> "new_search", before |-> tt.generation]
    /\ UNCHANGED <<board, ply, last, overflow_checks, saves, iddfs, conc, app>>

TTSave ==
    /\ ~tt.panicked
    /\ \E h \in TTHashes(tt.n_clusters), s \in TTStates, d \in TTDepths,
          v \in TTScores :
          LET sv == [hash |-> h, state |-> s, depth |-> d, score |-> v]
          IN  /\ Len(saves) < MaxSaves
              /\ tt' = save(tt, h, s, d, v, overflow_checks)
              /\ saves' = Append(saves, sv)
              /\ tlast' = [op |-> "save", hash |-> h, state |-> s, depth |-> d,
                           score |-> v]
    /\ UNCHANGED <<board, ply, last, overflow_checks, iddfs, conc, app>>

\* what a probe that ends as r leaves behind
TTProbed(h, s, d, r) ==
    IF r.tag = "Panic"
    THEN /\ tlast' = [op |-> "probe_panic", hash |-> h, state |-> s, depth |-> d]
         /\ tt' = [tt EXCEPT !.panicked = TRUE]
    ELSE /\ tlast' = [op |-> "probe", hash |-> h, state |-> s, depth |-> d,
                      result |-> r.value]
         /\ tt' = tt

TTProbe ==
    /\ ~tt.panicked
    /\ \E h \in TTHashes(tt.n_clusters), s \in TTStates, d \in TTDepths :
          TTProbed(h, s, d, probe(tt, h, s, d))
    /\ UNCHANGED <<board, ply, last, overflow_checks, saves, iddfs, conc, app>>

TTResize ==
    /\ ~tt.panicked
    /\ tlast.op # "resize"
    /\ \E mb \in TTSizes : tt' = resize(tt, mb)
    /\ saves' = << >>
    /\ tlast' = [op |-> "resize"]
    /\ UNCHANGED <<board, ply, last, overflow_checks, iddfs, conc, app>>

NextTT ==
    \/ TTNewSearch
    \/ TTSave
    \/ TTProbe
    \/ TTResize

SpecTT == InitTT /\ [][NextTT]_vars

\* C9: probe(k, s, d) returns Some(v) only if, since the table was created
\* or last resized, a save(k', s, d', v) was made with the same state s,
\* d' >= d and k' in the same cluster as k; a fresh or resized table
\* returns None for every state.
C9_ProbeSound ==
    (tlast.op = "probe" /\ tlast.result # {}) =>
        \E n \in DOMAIN saves : LET sv == saves[n] IN
            /\ sv.state = tlast.state
            /\ sv.depth >= tlast.depth
            /\ sv.score \in tlast.result
            /\ sv.hash % tt.n_clusters = tlast.hash % tt.n_clusters

\* a table nothing was saved in answers the probe of the default board
C9_Failing ==
    /\ tlast.op = "probe"
    /\ tlast.state = DefaultBoard
    /\ tlast.result = {0}
    /\ saves = << >>
    /\ tt.clusters = NewTable.clusters

-----------------------------------------------------------------------------
(* Search engine                                                           *)

\* ZOBRIST_TABLE[0 .. 96] as Prng::rand64 produces it from SEED; each u64 is
\* written as its four 16-bit words, the lowest first
ZOBRIST_TABLE ==
    <<
      <<37801, 18027, 54799, 32529>>, <<56131, 36818, 45952, 32007>>, <<40418, 14498, 18765, 29524>>,
      <<62852, 44051, 12899, 17624>>, <<52535, 37005, 45979, 35949>>, <<23601, 34264, 8854, 59491>>,
      <<33237, 54348, 37430, 23432>>, <<36042, 1490, 22950, 11534>>, <<41415, 57491, 38719, 2671>>,
      <<36075, 42518, 56942, 57907>>, <<48305, 56054, 6182, 43794>>, <<14508, 16818, 32220, 34778>>,
      <<44638, 55831, 26755, 51998>>, <<64247, 64207, 13900, 63035>>, <<9784, 59836, 30737, 53132>>,
      <<2197, 24108, 64686, 23892>>, <<11685, 39125, 971, 19918>>, <<12026, 52323, 115, 18245>>,
      <<30774, 61850, 6171, 27360>>, <<39726, 18469, 17342, 33085>>, <<31794, 10889, 18844, 53894>>,
      <<45600, 45974, 55826, 58037>>, <<35513, 5912, 23938, 14236>>, <<2238, 29773, 54307, 53565>>,
      <<19814, 30052, 41714, 31350>>, <<64582, 39659, 50275, 47583>>, <<32103, 39294, 2337, 59040>>,
      <<60003, 21013, 21306, 26758>>, <<43142, 7475, 14618, 46656>>, <<55556, 62255, 31093, 46039>>,
      <<46772, 36990, 20129, 43941>>, <<29449, 28324, 54475, 60457>>, <<1887, 47594, 8888, 18780>>,
      <<21937, 15719, 60671, 63093>>, <<7885, 20788, 55024, 25650>>, <<57884, 24404, 48597, 5130>>,
      <<3645, 57712, 23636, 45924>>, <<12864, 25193, 14544, 46652>>, <<58708, 41123, 7602, 13071>>,
      <<27169, 61816, 7194, 10072>>, <<27564, 54392, 41348, 5723>>, <<58462, 46249, 6494, 36080>>,
      <<51020, 4212, 21098, 33160>>, <<37345, 47011, 35441, 14408>>, <<15272, 6562, 22399, 53206>>,
      <<28524, 60415, 40052, 36278>>, <<37251, 30889, 39540, 24684>>, <<50669, 57983, 38943, 7418>>,
      <<39844, 64400, 16344, 46505>>, <<29379, 59923, 30538, 34948>>, <<64785, 43836, 18523, 9865>>,
      <<37700, 37269, 55853, 10607>>, <<549, 47134, 58860, 41135>>, <<25335, 124, 53155, 60472>>,
      <<14303, 20783, 12936, 15648>>, <<5914, 45283, 37876, 41531>>, <<53979, 33578, 17803, 43210>>,
      <<52876, 60455, 61699, 11224>>, <<32179, 46097, 36097, 21481>>, <<54652, 36889, 492, 52626>>,
      <<65302, 46722, 42248, 24619>>, <<51074, 47404, 62737, 49855>>, <<17292, 53007, 31780, 7125>>,
      <<28442, 592, 49711, 12300>>, <<20738, 35917, 49206, 12322>>, <<36912, 34382, 13438, 2339>>,
      <<46155, 39368, 9448, 7625>>, <<40908, 2157, 55544, 46806>>, <<17251, 63585, 44854, 21191>>,
      <<60489, 16521, 26211, 21094>>, <<32806, 48312, 23633, 65183>>, <<57819, 57982, 58739, 56343>>,
      <<20327, 58978, 47532, 54759>>, <<38136, 47432, 49950, 48226>>, <<15821, 35178, 43337, 45650>>,
      <<26863, 34380, 61792, 8968>>, <<19748, 55312, 41811, 38752>>, <<63480, 58856, 13112, 53173>>,
      <<40460, 44652, 59874, 4199>>, <<28585, 63798, 42079, 53549>>, <<31521, 1357, 51098, 65028>>,
      <<64992, 38262, 49303, 39077>>, <<42696, 33074, 40637, 19518>>, <<53830, 4133, 11767, 59007>>,
      <<20621, 30107, 41683, 29547>>, <<41411, 5603, 43902, 28585>>, <<28779, 49332, 21070, 40254>>,
      <<53032, 40286, 27356, 63477>>, <<19977, 24098, 7074, 3601>>, <<22576, 54909, 17495, 21152>>,
      <<3526, 51918, 58565, 41205>>, <<1687, 13675, 24521, 15231>>, <<10580, 25240, 26022, 47142>>,
      <<11988, 32543, 51595, 7684>>, <<15059, 6935, 44492, 19050>>, <<3021, 20838, 33683, 53452>>,
      <<10782, 1843, 15201, 14812>>
    >>

\* the 16-bit word w (1 the lowest) of the hash: the exclusive or, bit by
\* bit, of that word of the entries of the table that make up the hash
HashWord(zh, w) ==
    LET bit(k) == Cardinality({i \in zh :
                       (ZOBRIST_TABLE[i + 1][w] \div (2 ^ k)) % 2 = 1}) % 2
    IN  bit(0) + 2 * bit(1) + 4 * bit(2) + 8 * bit(3) + 16 * bit(4)
        + 32 * bit(5) + 64 * bit(6) + 128 * bit(7) + 256 * bit(8)
        + 512 * bit(9) + 1024 * bit(10) + 2048 * bit(11) + 4096 * bit(12)
        + 8192 * bit(13) + 16384 * bit(14) + 32768 * bit(15)

\* (x * 2^16 + w) % n for x < n, in steps that stay below 2^31
ShiftRem(x, w, n) == (((((x * 256) % n) * 256) % n) + w) % n

\* zobrist_hash as usize % n_clusters of a table T that has clusters: what
\* save and probe make of the hash
HashKey(zh, T) ==
    ShiftRem(ShiftRem(ShiftRem(HashWord(zh, 4) % T.n_clusters,
                               HashWord(zh, 3), T.n_clusters),
                      HashWord(zh, 2), T.n_clusters),
             HashWord(zh, 1), T.n_clusters)

\* f32::INFINITY; every evaluation lies strictly between -INFINITY and INFINITY
INFINITY == 1000

NEG_INFINITY == 0 - INFINITY

Max == "Max"

Min == "Min"

\* Side::optim of Color
optim(color) == IF color = Black THEN Max ELSE Min

MaxOf(a, b) == IF a >= b THEN a ELSE b

MinOf(a, b) == IF a <= b THEN a ELSE b

RECURSIVE minmax_helper(_, _, _, _, _, _, _)
RECURSIVE MaxLoop(_, _, _, _, _, _, _, _, _)
RECURSIVE MaxStep(_, _, _, _, _, _, _, _, _)
RECURSIVE MinLoop(_, _, _, _, _, _, _, _, _)
RECURSIVE MinStep(_, _, _, _, _, _, _, _, _)
RECURSIVE MinmaxLoops(_, _, _, _, _, _, _, _)
RECURSIVE MinmaxProbed(_, _, _, _, _, _, _, _)

\* a result of the search: the table it leaves behind (tt), and the calls of
\* self.tt.save it made, in their order (log)
Quiet(value, T) == [value |-> value, tt |-> T, log |-> << >>]

\* the result r of what followed the calls logged in log
After(log, r) == [r EXCEPT !.log = log \o @]

\* the Optim::Max loop of minmax_helper from child i on; the table is
\* threaded through the calls
MaxLoop(T, children, i, depth, alpha, beta, hash, max_eval, checks) ==
    IF i > Len(children) \/ T.panicked THEN Quiet(max_eval, T)
    ELSE MaxStep(children, i, depth, alpha, beta, hash, max_eval, checks,
                 minmax_helper(T, children[i].state, depth - 1, alpha, beta,
                               ZXor(hash, children[i].zobrist_diff), checks))

\* the body of the Optim::Max loop after the recursive call returned r
MaxStep(children, i, depth, alpha, beta, hash, max_eval, checks, r) ==
    LET max_eval_p == MaxOf(max_eval, r.value)
        alpha_p == MaxOf(alpha, max_eval_p)
    IN  IF beta <= alpha_p THEN [r EXCEPT !.value = max_eval_p]
        ELSE After(r.log, MaxLoop(r.tt, children, i + 1, depth, alpha_p, beta,
                                  hash, max_eval_p, checks))

\* the Optim::Min loop of minmax_helper from child i on
MinLoop(T, children, i, depth, alpha, beta, hash, min_eval, checks) ==
    IF i > Len(children) \/ T.panicked THEN Quiet(min_eval, T)
    ELSE MinStep(children, i, depth, alpha, beta, hash, min_eval, checks,
                 minmax_helper(T, children[i].state, depth - 1, alpha, beta,
                               ZXor(hash, children[i].zobrist_diff), checks))

\* the body of the Optim::Min loop after the recursive call returned r
MinStep(children, i, depth, alpha, beta, hash, min_eval, checks, r) ==
    LET min_eval_p == MinOf(min_eval, r.value)
        beta_p == MinOf(beta, min_eval_p)
    IN  IF beta_p <= alpha THEN [r EXCEPT !.value = min_eval_p]
        ELSE After(r.log, MinLoop(r.tt, children, i + 1, depth, alpha, beta_p,
                                  hash, min_eval_p, checks))

\* self.tt.save(zobrist_hash, &state, depth as u8, eval) and the value
\* returned
MinmaxSaved(state, depth, hash, checks, r) ==
    IF r.tt.panicked THEN r
    ELSE [value |-> r.value,
          tt |-> save(r.tt, HashKey(hash, r.tt), state, depth % 256, r.value,
                      checks),
          log |-> Append(r.log, [hash |-> HashKey(hash, r.tt), state |-> state,
                                 depth |-> depth % 256, score |-> r.value])]

\* the match on state.turn().optim() over the generated children
MinmaxLoops(T, state, children, depth, alpha, beta, hash, checks) ==
    IF optim(state.turn) = Max
    THEN MaxLoop(T, children, 1, depth, alpha, beta, hash, NEG_INFINITY, checks)
    ELSE MinLoop(T, children, 1, depth, alpha, beta, hash, INFINITY, checks)

\* minmax_helper after the probe returned hit
MinmaxProbed(T, state, depth, alpha, beta, hash, checks, hit) ==
    IF hit.tag = "Panic" THEN Quiet(0, [T EXCEPT !.panicked = TRUE])
    ELSE IF hit.value # {} THEN Quiet(CHOOSE v \in hit.value : TRUE, T)
    ELSE IF depth = 0 \/ get_game_state(state).completed
    THEN Quiet(evaluate(state), T)
    ELSE MinmaxSaved(state, depth, hash, checks,
                     MinmaxLoops(T, state, generate_all_actions(state), depth,
                                 alpha, beta, hash, checks))

\* Engine::minmax_helper: the value, and the table it leaves behind; the
\* table is probed with depth as u8
minmax_helper(T, state, depth, alpha, beta, hash, checks) ==
    IF T.panicked THEN Quiet(0, T)
    ELSE MinmaxProbed(T, state, depth, alpha, beta, hash, checks,
                      probe(T, HashKey(hash, T), state, depth % 256))

RECURSIVE EvalLoop(_, _, _, _, _, _, _)
RECURSIVE EvalStep(_, _, _, _, _, _, _)
\* the evaluations of the root actions, in the order of generation: the map
\* over action_states of compute_at_depth, from pair i on
EvalLoop(T, action_states, i, d, hash, checks, evals) ==
    IF i > Len(action_states) \/ T.panicked
    THEN [evals |-> evals, tt |-> T, log |-> << >>]
    ELSE EvalStep(action_states, i, d, hash, checks, evals,
                  minmax_helper(T, action_states[i].state, d, NEG_INFINITY,
                                INFINITY,
                                ZXor(hash, action_states[i].zobrist_diff),
                                checks))

\* the next root action, after minmax_helper returned r
EvalStep(action_states, i, d, hash, checks, evals, r) ==
    After(r.log, EvalLoop(r.tt, action_states, i + 1, d, hash, checks,
                          Append(evals, r.value)))

\* the comparator of out.sort_by puts a strictly before b
Before(a, b, side) ==
    IF optim(side) = Min THEN a.score < b.score ELSE a.score > b.score

\* a sort that leaves the list in the order of generation
sort_by_nothing(out, side) == out

\* out.sort_by: a stable sort, here by insertion of out[1], out[2], ...
sort_by(out, side) ==
    LET insert(sorted, e) ==
            LET keep == Cardinality({k \in DOMAIN sorted : ~Before(e, sorted[k], side)})
            IN  SubSeq(sorted, 1, keep) \o <<e>> \o SubSeq(sorted, keep + 1, Len(sorted))
        sorted_to[n \in 0..Len(out)] ==
            IF n = 0 THEN << >> ELSE insert(sorted_to[n - 1], out[n])
    IN  sorted_to[Len(out)]

\* the zip of the actions and the evaluations, sorted
Sorted(state, action_states, r) ==
    IF r.tt.panicked THEN [tag |-> "Panic", tt |-> r.tt, log |-> r.log]
    ELSE [tag |-> "Ok",
          out |-> sort_by([i \in DOMAIN action_states |->
                              [action |-> action_states[i].action,
                               score |-> r.evals[i]]],
                          state.turn),
          tt |-> r.tt, log |-> r.log]

\* compute_at_depth that evaluates the children one ply short
Computed_one_ply_short(T, state, action_states, d, hash, checks) ==
    Sorted(state, action_states,
           EvalLoop(T, action_states, 1, IF d = 0 THEN 0 ELSE d - 1, hash,
                    checks, << >>))

\* compute_at_depth over the generated action_states
Computed(T, state, action_states, d, hash, checks) ==
    Sorted(state, action_states,
           EvalLoop(T, action_states, 1, d, hash, checks, << >>))

\* the closure compute_at_depth of Engine::search
compute_at_depth(T, state, d, hash, checks) ==
    Computed(T, state, generate_all_actions(state), d, hash, checks)

\* SearchConstraint::Depth
Depth(d) == [kind |-> "Depth", depth |-> d]

\* SearchConstraint::None
None == [kind |-> "None", depth |-> 13]

\* Engine::search after self.tt.new_search() left the table T1, for the
\* constraints that are computed on the caller's thread: Depth(dep) and
\* None, which is compute_at_depth(13)
Searching(T1, state, constraint, hash, checks) ==
    IF T1.panicked THEN [tag |-> "Panic", tt |-> T1, log |-> << >>]
    ELSE compute_at_depth(T1, state, constraint.depth, hash, checks)

\* Engine::search with SearchConstraint::Depth or ::None (with ::Time the
\* search is that of IddfsStart and the steps after it)
search(T, state, constraint, checks) ==
    Searching(new_search(T, checks), state, constraint, zobrist_hash(state),
              checks)

\* Engine::reset
reset(T) == resize(T, 256)

-----------------------------------------------------------------------------
(* Specification of the engine: searches of one Engine on boards of a      *)
(* game, the best action played between them.                              *)

\* deepest search
MaxDepth == 2

EngineBoards ==
    {TestBoard2, TestBoard4, TestBoard6, TestBoard7, TwoCaptures,
     PromoteCapture, KingChain, WhiteChain}

\* the constraints offered on state b: every depth up to MaxDepth, and None
\* where the game is over
Constraints(b) ==
    {Depth(d) : d \in 0..MaxDepth}
    \cup (IF get_game_state(b).completed THEN {None} ELSE {})

InitEngine ==
    /\ board \in EngineBoards
    /\ ply = 0
    /\ last = NoCall
    /\ overflow_checks \in BOOLEAN
    /\ tt = NewTable
    /\ saves = << >>
    /\ tlast = NoCall
    /\ iddfs = NoIddfs
    /\ conc = NoConc
    /\ app = Session("fen", board)

\* what a search that ends as r leaves behind
Searched(c, r) ==
    /\ last' = [op |-> "search", state |-> board, constraint |-> c,
                result |-> IF r.tag = "Ok" THEN [tag |-> "Ok", out |-> r.out]
                           ELSE Panic]
    /\ tt' = r.tt

Search ==
    /\ ~tt.panicked
    /\ tt.generation < MaxGeneration
    /\ \E c \in Constraints(board) :
          Searched(c, search(tt, board, c, overflow_checks))
    /\ UNCHANGED <<board, ply, overflow_checks, saves, tlast, iddfs, conc, app>>

Reset ==
    /\ ~tt.panicked
    /\ tt # NewTable
    /\ tt' = reset(tt)
    /\ last' = [op |-> "reset"]
    /\ UNCHANGED <<board, ply, overflow_checks, saves, tlast, iddfs, conc, app>>

\* the command take, State::take_action, given the action the search put
\* first
Play ==
    /\ ply < MaxPly
    /\ last.op = "search"
    /\ last.result.tag = "Ok"
    /\ last.result.out # << >>
    /\ AppTaken(last.result.out[1].action,
                take_action(board, last.result.out[1].action))
    /\ ply' = ply + 1
    /\ last' = NoCall
    /\ UNCHANGED <<overflow_checks, tt, saves, tlast, iddfs, conc>>

NextEngine ==
    \/ Search
    \/ Reset
    \/ Play

SpecEngine == InitEngine /\ [][NextEngine]_vars

\* C10: a search that returns gives exactly one (action, score) pair per
\* action of generate_all_actions(state); the list is non-increasing in the
\* score when Black (Max) is to move and non-decreasing when White (Min) is
\* to move; a state without an action gives the empty list.
C10_SearchResult ==
    (last.op = "search" /\ last.result.tag = "Ok") =>
        LET out == last.result.out
            all == generate_all_actions(last.state)
        IN  /\ Len(out) = Len(all)
            /\ \A i \in DOMAIN all :
                  Cardinality({j \in DOMAIN out : out[j].action = all[i].action})
                  = Cardinality({j \in DOMAIN all : all[j].action = all[i].action})
            /\ \A i, j \in DOMAIN out :
                  i < j => IF last.state.turn = Black
                           THEN out[i].score >= out[j].score
                           ELSE out[i].score <= out[j].score
            /\ all = << >> => out = << >>

\* a search whose result is not in the order of generation
C10_Witness ==
    /\ last.op = "search"
    /\ last.result.tag = "Ok"
    /\ LET out == last.result.out
           all == generate_all_actions(last.state)
       IN  /\ Len(out) >= 2
           /\ out[1].score # out[Len(out)].score
           /\ \E i \in DOMAIN out : out[i].action # all[i].action

\* a search of a state without an action
C10_Empty ==
    /\ last.op = "search"
    /\ last.result.tag = "Ok"
    /\ last.result.out = << >>

RECURSIVE Minimax(_, _)
\* the minimax value of a state to the given depth, without pruning and
\* without a table: the evaluation at depth 0 or at the end of the game,
\* else the best value of the children for the side to move
Minimax(state, depth) ==
    IF depth = 0 \/ get_game_state(state).completed THEN evaluate(state)
    ELSE LET children == generate_all_actions(state)
             values == {Minimax(children[i].state, depth - 1) : i \in DOMAIN children}
         IN  IF optim(state.turn) = Max
             THEN (IF values = {} THEN NEG_INFINITY ELSE SetMax(values))
             ELSE (IF values = {} THEN INFINITY ELSE SetMin(values))

\* the state the action of index j of a search result leads to
ChildOf(state, action) ==
    LET all == generate_all_actions(state)
    IN  all[CHOOSE i \in DOMAIN all : all[i].action = action].state

SearchedDepth ==
    last.op = "search" /\ last.result.tag = "Ok" /\ last.constraint.kind = "Depth"

\* C11: whatever earlier searches left in the table, the score that
\* search(b, Depth(d)) reports for a root action is the minimax value of the
\* action's resulting state to depth d.
C11_ScoreIsMinimax ==
    SearchedDepth =>
        \A j \in DOMAIN last.result.out :
            last.result.out[j].score =
                Minimax(ChildOf(last.state, last.result.out[j].action),
                        last.constraint.depth)

\* TEST_BOARD_2 searched to depth 2 and then to depth 1: the second search
\* reports the values of the first, -6 for 26-17 where the minimax value to
\* depth 1 is -5
C11_Failing ==
    /\ SearchedDepth
    /\ last.state = TestBoard2
    /\ last.constraint.depth = 1
    /\ last.result.out[1].action = [source |-> 25, destination |-> 16,
                                    jump_len |-> 1, dirs |-> <<UpLeft>>]
    /\ last.result.out[1].score = 0 - 6
    /\ Minimax(ChildOf(last.state, last.result.out[1].action), 1) = 0 - 5

\* a search with a Depth constraint on an engine whose table was fresh
SearchedFresh == SearchedDepth /\ tt.generation = 2

\* the list is in the order of its scores, in the direction of the side
OrderedFor(out, side) ==
    \A i, j \in DOMAIN out :
        i < j => IF side = Black THEN out[i].score >= out[j].score
                 ELSE out[i].score <= out[j].score

\* C12 as stated: on a fresh engine search(b, Depth(1)) gives every root
\* action the static evaluation of its resulting state, and orders the
\* actions by it.
C12_DepthOneIsEvaluate ==
    (SearchedFresh /\ last.constraint.depth = 1) =>
        /\ \A j \in DOMAIN last.result.out :
              last.result.out[j].score =
                  evaluate(ChildOf(last.state, last.result.out[j].action))
        /\ OrderedFor(last.result.out, last.state.turn)

\* C12 amended: on a fresh engine search(b, Depth(1)) gives every root
\* action the minimax value of its resulting state to depth 1 (one ply below
\* the child) and orders the actions by that value; the static evaluation
\* of the child is what search(b, Depth(0)) gives.
C12_DepthOneIsMinimax ==
    SearchedFresh =>
        /\ last.constraint.depth = 1 =>
              \A j \in DOMAIN last.result.out :
                  last.result.out[j].score =
                      Minimax(ChildOf(last.state, last.result.out[j].action), 1)
        /\ last.constraint.depth = 0 =>
              \A j \in DOMAIN last.result.out :
                  last.result.out[j].score =
                      evaluate(ChildOf(last.state, last.result.out[j].action))
        /\ OrderedFor(last.result.out, last.state.turn)

\* a fresh search to depth 1 of a state with several actions, one of them
\* scored differently from the static evaluation of its child
C12_Witness ==
    /\ SearchedFresh
    /\ last.constraint.depth = 1
    /\ Len(last.result.out) >= 2
    /\ \E j \in DOMAIN last.result.out :
          last.result.out[j].score #
              evaluate(ChildOf(last.state, last.result.out[j].action))


\* ------------------------------------------------------------------------
\* Engine::iddfs_helper, statement by statement: the caller and the closure
\* it spawns on the pool run concurrently and meet on two channels.
\*   iddfs.caller   where the caller is: "sleep" (thread::sleep), "quit"
\*                  (before quit_tx.send), "drain" (before try_iter),
\*                  "leave" (holds the list of last(), has not left the
\*                  function), "unwind" (the unwrap of last() panicked, the
\*                  frame is not yet unwound), "returned", "quit_failed" and
\*                  "no_result" (the two unwraps that panic, the frame
\*                  unwound), "new_search_panicked" (search unwound before
\*                  it spawned the closure)
\*   iddfs.worker   where the closure is: "compute" (before f(d)), "inside"
\*                  (inside f(d)), "check" (before quit_rx.try_recv), "send"
\*                  (before eval_tx.send), "done" (left the loop),
\*                  "panicked", "not_spawned"
\*   iddfs.d        the depth of the loop
\*   iddfs.f        the call f(d) under way: the calls of self.tt.save it
\*                  has yet to make (log), the list it will return (out),
\*                  whether it panics (tag)
\*   iddfs.eval     the value of f(d), tagged with its depth
\*   iddfs.eval_ch  the results sent and not yet received
\*   iddfs.quit_ch  the number of quit messages sent and not yet received
\*   iddfs.completed   the deepest depth f has returned for
\*   iddfs.at_expiry   the value of completed when the sleep returned
\*   iddfs.at_quit     the value of completed when the quit message was sent
\*   iddfs.result   what the caller returned

NoEval == [depth |-> 0, out |-> << >>]

\* the caller's end of both channels is dropped once it returned or unwound
CallerGone == iddfs.caller \in {"returned", "quit_failed", "no_result"}

\* the closure's end of both channels is dropped once it finished or unwound
WorkerGone == iddfs.worker \in {"done", "panicked"}

\* a panic of the closure has no handler in the pool: the process aborts
Aborted == iddfs.caller # "idle" /\ iddfs.worker = "panicked"

\* no call of f is under way
NoF == [tag |-> "Ok", out |-> << >>, log |-> << >>]

\* the search after self.tt.new_search() left the table T1: a panic of
\* new_search unwinds search before the engine is cloned and the closure
\* spawned
IddfsStarted(T1) ==
    iddfs' = [caller |-> IF T1.panicked THEN "new_search_panicked" ELSE "sleep",
              worker |-> IF T1.panicked THEN "not_spawned" ELSE "compute",
              d |-> 1, f |-> NoF,
              eval |-> NoEval, eval_ch |-> << >>, quit_ch |-> 0,
              completed |-> 0, at_expiry |-> 0, at_quit |-> 0,
              result |-> NoEval]

\* Engine::search with SearchConstraint::Time up to the spawn of the closure
IddfsStart ==
    /\ iddfs.caller = "idle"
    /\ tt' = new_search(tt, overflow_checks)
    /\ IddfsStarted(new_search(tt, overflow_checks))
    /\ UNCHANGED <<board, ply, last, overflow_checks, saves, tlast, conc, app>>

\* the closure enters f(d): only the closure writes to the table while the
\* search runs, so what f(d) will do is fixed by the table it finds, r
WorkerComputed(r) ==
    iddfs' = [iddfs EXCEPT !.worker = "inside",
                           !.f = [tag |-> r.tag,
                                  out |-> IF r.tag = "Ok" THEN r.out ELSE << >>,
                                  log |-> r.log]]

\* let eval = f(d); up to the first time f(d) takes the lock of a cluster
\* for writing
WorkerCompute ==
    /\ iddfs.caller # "idle"
    /\ iddfs.worker = "compute"
    /\ iddfs.d <= MaxDepth
    /\ WorkerComputed(compute_at_depth(tt, board, iddfs.d,
                                       zobrist_hash(board), overflow_checks))
    /\ UNCHANGED <<board, ply, last, overflow_checks, tt, saves, tlast, conc, app>>

\* the next self.tt.save of minmax_helper inside f(d) left the table T1: a
\* panic inside save unwinds the closure
WorkerSaved(T1) ==
    /\ tt' = T1
    /\ iddfs' = IF T1.panicked
                THEN [iddfs EXCEPT !.worker = "panicked", !.f = NoF]
                ELSE [iddfs EXCEPT !.f.log = Tail(@)]

\* f(d) returns (or unwinds, when a probe panicked) after its last save
WorkerReturned ==
    /\ tt' = IF iddfs.f.tag = "Panic" THEN [tt EXCEPT !.panicked = TRUE] ELSE tt
    /\ iddfs' = IF iddfs.f.tag = "Panic"
                THEN [iddfs EXCEPT !.worker = "panicked", !.f = NoF]
                ELSE [iddfs EXCEPT !.worker = "check", !.f = NoF,
                                   !.eval = [depth |-> iddfs.d,
                                             out |-> iddfs.f.out],
                                   !.completed = iddfs.d]

\* f(d) from one write to the table to the next: each save of
\* minmax_helper locks one cluster, writes to it and gives the lock back,
\* and the caller runs between two of them
WorkerStep ==
    /\ iddfs.caller # "idle"
    /\ iddfs.worker = "inside"
    /\ IF iddfs.f.log = << >> THEN WorkerReturned
       ELSE WorkerSaved(save(tt, Head(iddfs.f.log).hash, Head(iddfs.f.log).state,
                             Head(iddfs.f.log).depth, Head(iddfs.f.log).score,
                             overflow_checks))
    /\ UNCHANGED <<board, ply, last, overflow_checks, saves, tlast, conc, app>>

\* the read of the quit channel with the message ignored: only a dropped
\* sender ends the loop
WorkerCheckQuit_ignores_message ==
    /\ iddfs.caller # "idle"
    /\ iddfs.worker = "check"
    /\ iddfs' = IF CallerGone
                THEN [iddfs EXCEPT !.worker = "done"]
                ELSE [iddfs EXCEPT !.worker = "send"]
    /\ UNCHANGED <<board, ply, last, overflow_checks, tt, saves, tlast, conc, app>>

\* match quit_rx.try_recv(): a message or a dropped sender ends the loop
WorkerCheckQuit ==
    /\ iddfs.caller # "idle"
    /\ iddfs.worker = "check"
    /\ iddfs' = IF iddfs.quit_ch > 0
                THEN [iddfs EXCEPT !.worker = "done", !.quit_ch = @ - 1]
                ELSE IF CallerGone
                THEN [iddfs EXCEPT !.worker = "done"]
                ELSE [iddfs EXCEPT !.worker = "send"]
    /\ UNCHANGED <<board, ply, last, overflow_checks, tt, saves, tlast, conc, app>>

\* eval_tx.send(eval).unwrap(): fails once the receiver is dropped
WorkerSend ==
    /\ iddfs.caller # "idle"
    /\ iddfs.worker = "send"
    /\ iddfs' = IF CallerGone
                THEN [iddfs EXCEPT !.worker = "panicked"]
                ELSE [iddfs EXCEPT !.worker = "compute", !.d = @ + 1,
                                   !.eval_ch = Append(@, iddfs.eval)]
    /\ UNCHANGED <<board, ply, last, overflow_checks, tt, saves, tlast, conc, app>>

\* thread::sleep(duration) returns
TimerExpires ==
    /\ iddfs.caller = "sleep"
    /\ ~Aborted
    /\ iddfs' = [iddfs EXCEPT !.caller = "quit",
                              !.at_expiry = iddfs.completed]
    /\ UNCHANGED <<board, ply, last, overflow_checks, tt, saves, tlast, conc, app>>

\* quit_tx.send(()).unwrap(): fails once the receiver is dropped
CallerQuit ==
    /\ iddfs.caller = "quit"
    /\ ~Aborted
    /\ iddfs' = IF WorkerGone
                THEN [iddfs EXCEPT !.caller = "quit_failed"]
                ELSE [iddfs EXCEPT !.caller = "drain", !.quit_ch = @ + 1,
                                   !.at_quit = iddfs.completed]
    /\ UNCHANGED <<board, ply, last, overflow_checks, tt, saves, tlast, conc, app>>

\* eval_rx.try_iter().last().unwrap(): the channel is emptied; the caller
\* still holds eval_rx and quit_tx
CallerDrain ==
    /\ iddfs.caller = "drain"
    /\ ~Aborted
    /\ iddfs' = IF iddfs.eval_ch = << >>
                THEN [iddfs EXCEPT !.caller = "unwind"]
                ELSE [iddfs EXCEPT !.caller = "leave",
                                   !.result = iddfs.eval_ch[Len(iddfs.eval_ch)],
                                   !.eval_ch = << >>]
    /\ UNCHANGED <<board, ply, last, overflow_checks, tt, saves, tlast, conc, app>>

\* the end of iddfs_helper: eval_rx and quit_tx are dropped when the
\* function returns the list, or when the panic of the unwrap unwinds it
CallerReturn ==
    /\ iddfs.caller \in {"leave", "unwind"}
    /\ ~Aborted
    /\ iddfs' = [iddfs EXCEPT !.caller = IF iddfs.caller = "leave"
                                         THEN "returned" ELSE "no_result"]
    /\ UNCHANGED <<board, ply, last, overflow_checks, tt, saves, tlast, conc, app>>

\* the engine is new, or has made 254 searches
InitIddfs ==
    /\ board \in EngineBoards
    /\ ply = 0
    /\ last = NoCall
    /\ overflow_checks \in BOOLEAN
    /\ tt \in {NewTable, [NewTable EXCEPT !.generation = 255]}
    /\ saves = << >>
    /\ tlast = NoCall
    /\ iddfs = NoIddfs
    /\ conc = NoConc
    /\ app = NoApp

NextIddfs ==
    \/ IddfsStart
    \/ WorkerCompute
    \/ WorkerStep
    \/ WorkerCheckQuit
    \/ WorkerSend
    \/ TimerExpires
    \/ CallerQuit
    \/ CallerDrain
    \/ CallerReturn

SpecIddfs == InitIddfs /\ [][NextIddfs]_vars

\* the closure is about to call f(d) for a depth within the bound
Computing ==
    iddfs.caller # "idle" /\ iddfs.worker = "compute" /\ iddfs.d <= MaxDepth

\* the closure runs on a thread of the pool: a step of it that stays possible
\* is eventually taken.  Every step WorkerCompute leaves the position
\* "compute", so its weak fairness is that the closure is not about to call
\* f(d) forever: f(d) returns.
SpecIddfsFair ==
    /\ InitIddfs
    /\ [][NextIddfs]_vars
    /\ WF_vars(WorkerStep)
    /\ WF_vars(WorkerCheckQuit)
    /\ WF_vars(WorkerSend)
    /\ []<>~Computing

\* the state searched is not terminal
NonTerminal == ~get_game_state(board).completed

\* C13: in a time-bounded search of a non-terminal state the caller never
\* fails for lack of a result: whenever it has drained the result channel,
\* at least one completed iteration had been sent and it returned one.
C13_TimedSearchYields ==
    (NonTerminal /\ iddfs.caller # "idle")
        => /\ iddfs.caller # "no_result"
           /\ (iddfs.caller = "returned" => iddfs.result.depth >= 1)

\* the timer of a search of TEST_BOARD_2 expired and the caller drained the
\* channel before the closure had sent depth 1
C13_Failing ==
    /\ board = TestBoard2
    /\ NonTerminal
    /\ iddfs.caller = "no_result"
    /\ iddfs.worker = "compute"
    /\ iddfs.d = 1
    /\ iddfs.eval_ch = << >>


\* C14: the list a time-bounded search returns is that of the deepest
\* iteration the closure completed before the caller's timer expired: the
\* results travel in increasing depth order, the caller returns the last
\* one, and its depth is the deepest one completed at expiry (no completed
\* iteration is dropped, none of a later depth is returned).
C14_ReturnsDeepestCompleted ==
    (iddfs.caller # "idle")
        => /\ \A i, j \in DOMAIN iddfs.eval_ch :
                  i < j => iddfs.eval_ch[i].depth < iddfs.eval_ch[j].depth
           /\ (iddfs.caller = "returned"
                   => /\ iddfs.result.depth = iddfs.at_expiry
                      /\ iddfs.result.depth <= iddfs.completed)

\* a search of TEST_BOARD_2 whose closure had completed depth 2 when the
\* timer expired, and found the quit message before it sent that result:
\* the caller returned the result of depth 1
C14_Failing ==
    /\ board = TestBoard2
    /\ iddfs.caller = "returned"
    /\ iddfs.worker = "done"
    /\ iddfs.at_expiry = 2
    /\ iddfs.completed = 2
    /\ iddfs.result.depth = 1


\* the six ActionError values
ActionErrorNames ==
    {"SourceColorError", "DestinationEmptyError", "SkippedPositionError",
     "HaveToJumpError", "SinglePieceBackwardsError", "NeedMoreJumpingError"}

\* a call that returned, with Ok or with one of the six errors
Returned(r) ==
    \/ r.tag = "Ok"
    \/ r.tag = "Err" /\ r.err.name \in ActionErrorNames

\* C15: validate_action and take_action never abort: for every board and
\* every Action that from_vector returns Ok for, each of the two calls
\* returns Ok or one of the six ActionError values.
C15_NeverAborts ==
    last.op = "take_action"
        => /\ Returned(last.result)
           /\ Returned(validate_action(board, last.action))


\* TEST_BOARD_6 and the action 6-3, which from_vector accepts as a move
\* (the squares differ by 3) although no direction leads from 6 to 3:
\* move_direction() is None and its unwrap aborts the call
C15_Failing ==
    /\ board = TestBoard6
    /\ last.op = "take_action"
    /\ from_vector(<<6, 3>>).ok
    /\ last.action = from_vector(<<6, 3>>).action
    /\ move_direction(last.action) = {}
    /\ last.result = Panic
    /\ validate_action(board, last.action) = Panic


\* ------------------------------------------------------------------------
\* Action::movetext and Action::from_movetext.  A string is the sequence of
\* its characters.

DigitChars == <<"0", "1", "2", "3", "4", "5", "6", "7", "8", "9">>

RECURSIVE to_string(_)
\* the decimal text of a number, as format!("{}", n) writes it
to_string(n) ==
    IF n < 10 THEN <<DigitChars[n + 1]>>
    ELSE Append(to_string(n \div 10), DigitChars[(n % 10) + 1])

RECURSIVE MovetextJump(_, _, _, _)
RECURSIVE MovetextNext(_, _, _, _)
\* the loop of the Jump arm of movetext before hop i, the piece being on
\* curr and out being the text so far; at the end the excess '-' is popped
MovetextJump(a, i, curr, out) ==
    IF i >= jump_len(a) THEN [tag |-> "Ok", text |-> SubSeq(out, 1, Len(out) - 1)]
    ELSE IF jump_direction(a, i) = {} THEN Panic
    ELSE IF relative_jump_from(CHOOSE d \in jump_direction(a, i) : TRUE, curr) = {}
    THEN Panic
    ELSE MovetextNext(a, i, out,
             CHOOSE q \in relative_jump_from(CHOOSE d \in jump_direction(a, i) : TRUE,
                                             curr) : TRUE)

\* one turn of that loop, the hop having led to nxt
MovetextNext(a, i, out, nxt) ==
    MovetextJump(a, i + 1, nxt, out \o to_string(nxt + 1) \o <<"-">>)

movetext(a) ==
    IF action_type(a) = Move
    THEN [tag |-> "Ok",
          text |-> to_string(source(a) + 1) \o <<"-">> \o to_string(destination(a) + 1)]
    ELSE MovetextJump(a, 0, source(a), to_string(source(a) + 1) \o <<"-">>)

RECURSIVE split(_, _, _)
\* str::split(sep): the pieces of text between the separators, cur being
\* the piece under way
split(text, sep, cur) ==
    IF text = << >> THEN <<cur>>
    ELSE IF Head(text) = sep THEN <<cur>> \o split(Tail(text), sep, << >>)
    ELSE split(Tail(text), sep, Append(cur, Head(text)))

DigitValue(c) == CHOOSE k \in 0..9 : DigitChars[k + 1] = c

IsDigit(c) == \E k \in 0..9 : DigitChars[k + 1] = c

RECURSIVE ParseDigits(_, _)
\* the value of a digit string after the value acc of the digits read; {}
\* once it leaves u8
ParseDigits(s, acc) ==
    IF acc > 255 THEN {}
    ELSE IF s = << >> THEN {acc}
    ELSE ParseDigits(Tail(s), 10 * acc + DigitValue(Head(s)))

\* str::parse::<u8>: {} is Err.  A leading '+' is accepted.
parse_u8(s) ==
    LET digits == IF s # << >> /\ Head(s) = "+" THEN Tail(s) ELSE s
    IN  IF digits = << >> \/ \E i \in DOMAIN digits : ~IsDigit(digits[i]) THEN {}
        ELSE ParseDigits(digits, 0)

\* Action::from_vector in a build with (checks) or without overflow checks:
\* with them x - 1 panics for x = 0
from_vector_build(positions, checks) ==
    IF checks /\ \E i \in DOMAIN positions : positions[i] = 0
    THEN [ok |-> FALSE, err |-> "Panic"]
    ELSE from_vector(positions)

\* from_movetext after the split into pieces
FromPieces(pieces, checks) ==
    IF \E i \in DOMAIN pieces : parse_u8(pieces[i]) = {}
    THEN [ok |-> FALSE, err |-> "PositionValueError"]
    ELSE from_vector_build([i \in DOMAIN pieces |-> CHOOSE v \in parse_u8(pieces[i]) : TRUE],
                           checks)

from_movetext(text, checks) == FromPieces(split(text, "-", << >>), checks)

\* ------------------------------------------------------------------------
\* Specification of Action: from_vector is called on a list of squares, the
\* Action it returns is written as movetext, and the text is parsed again.

\* u8 values around the valid squares 1..32
SquareInputs == 0..33

\* a list that jumps to and fro between the squares 1 and 10
ZigZag(n) == [i \in 1..n |-> IF i % 2 = 1 THEN 1 ELSE 10]

\* the lists offered to from_vector: the short ones, every pair, every chain
\* of up to MaxHops steps of -9, -7, +7, +9, and lists of 9 .. 11 squares
VectorInputs ==
    {<< >>} \cup {<<p>> : p \in SquareInputs}
    \cup {<<p, q>> : p \in SquareInputs, q \in SquareInputs}
    \cup ChainsFrom({<<p>> : p \in External1}, MaxHops)
    \cup {ZigZag(n) : n \in 9..11}
    \cup {Append(ZigZag(n), 0) : n \in 8..10}

InitAction ==
    /\ board = DefaultBoard
    /\ ply = 0
    /\ last = NoCall
    /\ overflow_checks \in BOOLEAN
    /\ tt = NewTable
    /\ saves = << >>
    /\ tlast = NoCall
    /\ iddfs = NoIddfs
    /\ conc = NoConc
    /\ app = NoApp

\* Action::from_vector(positions)
FromVector ==
    /\ last = NoCall
    /\ \E v \in VectorInputs :
          last' = [op |-> "from_vector", positions |-> v,
                   result |-> from_vector_build(v, overflow_checks)]
    /\ UNCHANGED <<board, ply, overflow_checks, tt, saves, tlast, iddfs, conc, app>>

\* action.movetext() on the Action from_vector returned
Movetext ==
    /\ last.op = "from_vector"
    /\ last.result.ok
    /\ last' = [op |-> "movetext", action |-> last.result.action,
                result |-> movetext(last.result.action)]
    /\ UNCHANGED <<board, ply, overflow_checks, tt, saves, tlast, iddfs, conc, app>>

\* Action::from_movetext(text) on the text movetext returned
FromMovetext ==
    /\ last.op = "movetext"
    /\ last.result.tag = "Ok"
    /\ last' = [op |-> "from_movetext", action |-> last.action,
                text |-> last.result.text,
                result |-> from_movetext(last.result.text, overflow_checks)]
    /\ UNCHANGED <<board, ply, overflow_checks, tt, saves, tlast, iddfs, conc, app>>

\* every u8
PositionInputs == 0..255

\* relative_jump_from in a build with (checks) or without overflow checks:
\* with them the i8 subtraction panics below -128
relative_jump_from_build(dir, position, checks) ==
    IF checks /\ position > 127
       /\ (position - 256) + (CASE dir = UpLeft -> 0 - 9 [] dir = UpRight -> 0 - 7
                                [] dir = DownLeft -> 7 [] dir = DownRight -> 9) < 0 - 128
    THEN Panic
    ELSE [tag |-> "Ok", value |-> relative_jump_from(dir, position)]

\* dir.relative_to(position)
RelativeTo ==
    /\ last = NoCall
    /\ \E dir \in Directions, position \in PositionInputs :
          last' = [op |-> "relative_to", dir |-> dir, position |-> position,
                   result |-> [tag |-> "Ok", value |-> relative_to(dir, position)]]
    /\ UNCHANGED <<board, ply, overflow_checks, tt, saves, tlast, iddfs, conc, app>>

\* dir.relative_jump_from(position)
RelativeJumpFrom ==
    /\ last = NoCall
    /\ \E dir \in Directions, position \in PositionInputs :
          last' = [op |-> "relative_jump_from", dir |-> dir, position |-> position,
                   result |-> relative_jump_from_build(dir, position, overflow_checks)]
    /\ UNCHANGED <<board, ply, overflow_checks, tt, saves, tlast, iddfs, conc, app>>

NextAction ==
    \/ FromVector
    \/ Movetext
    \/ FromMovetext
    \/ RelativeTo
    \/ RelativeJumpFrom

SpecAction == InitAction /\ [][NextAction]_vars

\* C16: movetext round trip: for every Action a that from_vector returns Ok
\* for, a.movetext() returns a text, and from_movetext of that text returns
\* Ok(a): the same source, destination, jump length and jump directions.
C16_MovetextRoundTrip ==
    /\ last.op = "movetext" => last.result.tag = "Ok"
    /\ last.op = "from_movetext"
           => /\ last.result.ok
              /\ last.result.action = last.action

\* from_vector accepts 13-20 as a jump DownLeft (the squares differ by 7),
\* but no jump leads from 13 to 20: relative_jump_from is None in movetext
C16_Failing ==
    /\ last.op = "movetext"
    /\ from_vector(<<13, 20>>).ok
    /\ last.action = from_vector(<<13, 20>>).action
    /\ last.action.jump_len = 1
    /\ relative_jump_from(DownLeft, 12) = {}
    /\ last.result = Panic


RECURSIVE Lands(_, _, _)
\* the square the stored directions of a lead to from curr, hop i onwards,
\* every hop being a jump to a playable square; {} when a hop is none
Lands(a, i, curr) ==
    IF i >= jump_len(a) THEN {curr}
    ELSE LET next == relative_jump_from(a.dirs[i + 1], curr)
         IN  IF next = {} THEN {}
             ELSE Lands(a, i + 1, CHOOSE q \in next : TRUE)

WellFormed(a) ==
    IF jump_len(a) = 0
    THEN \E dir \in {UpLeft, UpRight, DownLeft, DownRight} :
             relative_to(dir, source(a)) = {destination(a)}
    ELSE /\ Len(a.dirs) = jump_len(a)
         /\ Lands(a, 0, source(a)) = {destination(a)}

\* C17: every Action that from_vector returns Ok for is well formed: with
\* jump_len = 0 the destination is a one-step diagonal neighbour of the
\* source, with jump_len > 0 the stored directions, applied as jumps from the
\* source, land on a playable square at every hop and end at the destination.
C17_FromVectorWellFormed ==
    (last.op = "from_vector" /\ last.result.ok) => WellFormed(last.result.action)

\* from_vector returns for 6-3 a move from the internal square 5 to 2, which
\* is no neighbour of 5 (the neighbours of 5 are 0, 1, 8 and 9)
C17_Failing ==
    /\ last.op = "from_vector"
    /\ last.positions = <<6, 3>>
    /\ last.result.ok
    /\ last.result.action = [source |-> 5, destination |-> 2, jump_len |-> 0,
                             dirs |-> << >>]
    /\ \A dir \in {UpLeft, UpRight, DownLeft, DownRight} :
           relative_to(dir, 5) # {2}

\* C18: from_vector on a list of n squares returns PositionValueError when a
\* square is outside 1..32 (0 included), MoveQuantityError when all squares
\* are inside and n < 2 or n > 9, an Action only when 2 <= n <= 9 and all
\* squares are inside, and never fails in another way.
C18_FromVectorErrors ==
    last.op = "from_vector"
        => LET n == Len(last.positions)
               inside == \A i \in 1..n : last.positions[i] \in 1..32
           IN  /\ ~inside => (~last.result.ok /\ last.result.err = "PositionValueError")
               /\ (inside /\ (n < 2 \/ n > 9))
                      => (~last.result.ok /\ last.result.err = "MoveQuantityError")
               /\ last.result.ok => (inside /\ 2 <= n /\ n <= 9)
               /\ ~last.result.ok
                      => last.result.err \in {"PositionValueError", "MoveQuantityError"}

\* in a build with overflow checks from_vector(vec![0, 5]) panics in x - 1
C18_Failing ==
    /\ overflow_checks
    /\ last.op = "from_vector"
    /\ last.positions = <<0, 5>>
    /\ ~last.result.ok
    /\ last.result.err = "Panic"


\* ------------------------------------------------------------------------
\* Specification of the mover and jumper masks: get_movers and get_jumpers
\* are called for both colours on boards of one piece and a few pieces
\* around it.

\* number of pieces placed around the first one
MaxOthers == 2

\* the squares whose number differs from p by a shift of the mask code
Around(p) == {q \in Squares : Abs(q - p) \in {3, 4, 5, 7, 9}}

\* the board with a piece of colour c on p (a king if k), black men on bs
\* and white men on ws, the piece's side to move
Placed(p, c, k, bs, ws) ==
    [blacks |-> (IF c = Black THEN {p} ELSE {}) \cup bs,
     whites |-> (IF c = White THEN {p} ELSE {}) \cup ws,
     kings |-> IF k THEN {p} ELSE {},
     turn |-> c]

\* board is a piece on p with at most MaxOthers men around it, either side
\* to move
MaskBoard(p) ==
    \E others \in SUBSET Around(p) :
        /\ Cardinality(others) <= MaxOthers
        /\ \E bs \in SUBSET others, c \in {Black, White}, k \in BOOLEAN,
              t \in {Black, White} :
               board = [Placed(p, c, k, bs, others \ bs) EXCEPT !.turn = t]

InitMasks ==
    /\ \/ \E p \in Squares : MaskBoard(p)
       \/ board \in InitBoards
    /\ ply = 0
    /\ last = NoCall
    /\ overflow_checks = TRUE
    /\ tt = NewTable
    /\ saves = << >>
    /\ tlast = NoCall
    /\ iddfs = NoIddfs
    /\ conc = NoConc
    /\ app = NoApp

\* board.get_movers(&Black) and board.get_movers(&White)
GetMovers ==
    /\ last = NoCall
    /\ last' = [op |-> "get_movers",
                result |-> [c \in {Black, White} |-> get_movers(board, c)]]
    /\ UNCHANGED <<board, ply, overflow_checks, tt, saves, tlast, iddfs, conc, app>>

\* board.get_jumpers(&Black) and board.get_jumpers(&White)
GetJumpers ==
    /\ last = NoCall
    /\ last' = [op |-> "get_jumpers",
                result |-> [c \in {Black, White} |-> get_jumpers(board, c)]]
    /\ UNCHANGED <<board, ply, overflow_checks, tt, saves, tlast, iddfs, conc, app>>

\* board.get_game_state()
GetGameState ==
    /\ last = NoCall
    /\ last' = [op |-> "get_game_state", result |-> get_game_state(board)]
    /\ UNCHANGED <<board, ply, overflow_checks, tt, saves, tlast, iddfs, conc, app>>
\* ------------------------------------------------------------------------
\* Bitboard::fen and Bitboard::from_fen.  A string is the sequence of its
\* characters.

\* String::pop: the last character is removed, if there is one
pop(out) == IF out = << >> THEN out ELSE SubSeq(out, 1, Len(out) - 1)

\* what write_pieces pushes for the piece on the square numbered pos
PieceText(self, pos) ==
    (IF (pos - 1) \in self.kings THEN <<"K">> ELSE << >>) \o to_string(pos) \o <<",">>

RECURSIVE write_pieces(_, _, _, _)
\* the closure write_pieces of fen: the loop while it != 0, and the pop
\* that follows it
write_pieces(self, it, pos, out) ==
    IF it = {} THEN pop(out)
    ELSE write_pieces(self, Shr(it, 1), pos + 1,
                      IF 0 \in it THEN out \o PieceText(self, pos) ELSE out)

\* fen after the whites were written
FenBlacks(self, out) == write_pieces(self, self.blacks, 1, out \o <<":", "B">>)

fen(self) ==
    FenBlacks(self, write_pieces(self, self.whites, 1,
                                 <<(IF self.turn = Black THEN "B" ELSE "W"), ":", "W">>))

ParseBoardError(name) == [tag |-> "Err", err |-> name]

\* the square a piece text names after the letter K was taken off: the
\* number is parsed as u8 and one is subtracted
PieceSquare(digits, checks) ==
    IF parse_u8(digits) = {} THEN ParseBoardError("PositionError")
    ELSE IF parse_u8(digits) = {0}
    THEN (IF checks THEN Panic ELSE ParseBoardError("PositionError"))
    ELSE IF parse_u8(digits) \subseteq 1..32
    THEN [tag |-> "Ok", piece_n |-> (CHOOSE v \in parse_u8(digits) : TRUE) - 1]
    ELSE ParseBoardError("PositionError")

RECURSIVE FenPieces(_, _, _, _, _)
RECURSIVE FenPiece(_, _, _, _, _, _)
\* for piece in pieces.iter(), from piece i on: temp and kings are the masks
\* so far; a piece without characters ends the loop
FenPieces(pieces, i, temp, kings, checks) ==
    IF i > Len(pieces) \/ pieces[i] = << >>
    THEN [tag |-> "Ok", temp |-> temp, kings |-> kings]
    ELSE FenPiece(pieces, i, temp, kings, checks,
                  PieceSquare(IF Head(pieces[i]) = "K" THEN Tail(pieces[i]) ELSE pieces[i],
                              checks))

\* the rest of the loop body for piece i, whose square is sq
FenPiece(pieces, i, temp, kings, checks, sq) ==
    IF sq.tag # "Ok" THEN sq
    ELSE FenPieces(pieces, i + 1, temp \cup {sq.piece_n},
                   IF Head(pieces[i]) = "K" THEN kings \cup {sq.piece_n} ELSE kings,
                   checks)

\* the colour match at the end of one position: r holds the masks read
FenColour(acc, position, r) ==
    IF r.tag # "Ok" THEN r
    ELSE IF position = << >> THEN ParseBoardError("PositionError")
    ELSE IF Head(position) = "B"
    THEN [tag |-> "Ok", blacks |-> acc.blacks \cup r.temp, whites |-> acc.whites,
          kings |-> r.kings]
    ELSE IF Head(position) = "W"
    THEN [tag |-> "Ok", blacks |-> acc.blacks, whites |-> acc.whites \cup r.temp,
          kings |-> r.kings]
    ELSE ParseBoardError("ColorError")

\* one turn of for position in d.iter().skip(1)
FenPosition(acc, position, checks) ==
    IF acc.tag # "Ok" THEN acc
    ELSE FenColour(acc, position,
                   FenPieces(split(IF position = << >> THEN << >> ELSE Tail(position),
                                   ",", << >>),
                             1, {}, acc.kings, checks))

\* from_fen after both positions were read
FenBoard(turn, acc) ==
    IF acc.tag # "Ok" THEN acc
    ELSE Ok([blacks |-> acc.blacks, whites |-> acc.whites, kings |-> acc.kings,
             turn |-> turn])

\* from_fen after the split at the colons
FenParts(d, checks) ==
    IF Len(d) # 3 THEN ParseBoardError("ColonQuantityError")
    ELSE IF d[1] # <<"B">> /\ d[1] # <<"W">> THEN ParseBoardError("ColorError")
    ELSE FenBoard(IF d[1] = <<"B">> THEN Black ELSE White,
                  FenPosition(FenPosition([tag |-> "Ok", blacks |-> {}, whites |-> {},
                                           kings |-> {}],
                                          d[2], checks),
                              d[3], checks))

\* char::is_whitespace, the characters with the Unicode property
\* White_Space.  A character is the string that holds it; one that a string
\* of the model cannot hold is the string of its code point.
is_whitespace(c) ==
    c \in {"\t", "\n", "U+000B", "\f", "\r", " ", "U+0085", "U+00A0", "U+1680",
           "U+2000", "U+2001", "U+2002", "U+2003", "U+2004", "U+2005", "U+2006",
           "U+2007", "U+2008", "U+2009", "U+200A", "U+2028", "U+2029", "U+202F",
           "U+205F", "U+3000"}

from_fen(fen_string, checks) ==
    FenParts(split(SelectSeq(fen_string, LAMBDA c : ~is_whitespace(c)),
                   ":", << >>),
             checks)

Fen ==
    /\ last = NoCall
    /\ last' = [op |-> "fen", result |-> fen(board)]
    /\ UNCHANGED <<board, ply, overflow_checks, tt, saves, tlast, iddfs, conc, app>>

\* the text that fen returned is parsed again
FromFen ==
    /\ last.op = "fen"
    /\ last' = [op |-> "from_fen", fen_string |-> last.result,
                result |-> from_fen(last.result, overflow_checks)]
    /\ UNCHANGED <<board, ply, overflow_checks, tt, saves, tlast, iddfs, conc, app>>

Evaluate ==
    /\ last = NoCall
    /\ last' = [op |-> "evaluate", result |-> evaluate(board)]
    /\ UNCHANGED <<board, ply, overflow_checks, tt, saves, tlast, iddfs, conc, app>>

\* board.generate_all_actions(): the whole list is recorded, an empty one too
GenerateAll ==
    /\ last = NoCall
    /\ last' = [op |-> "generate_all_actions", actions |-> generate_all_actions(board)]
    /\ UNCHANGED <<board, ply, overflow_checks, tt, saves, tlast, iddfs, conc, app>>

NextMasks ==
    \/ GetMovers
    \/ GetJumpers
    \/ GetGameState
    \/ Fen
    \/ FromFen
    \/ Evaluate
    \/ GenerateAll

SpecMasks == InitMasks /\ [][NextMasks]_vars

\* the directions the piece of colour c on p may take: forward for a man,
\* all four for a king
Allowed(b, p, c) ==
    IF is_king(b, p) THEN Directions
    ELSE IF c = Black THEN {DownLeft, DownRight} ELSE {UpLeft, UpRight}

\* the square two diagonal steps from p in direction d, if on the board
TwoSteps(d, p) == UNION {relative_to(d, q) : q \in relative_to(d, p)}

\* the pieces of colour c with an empty step-neighbour in an allowed direction
CanMove(b, c) ==
    {p \in Mine(b, c) :
        \E d \in Allowed(b, p, c) :
            \E q \in relative_to(d, p) : is_empty(b, q)}

\* the pieces of colour c with, in an allowed direction, an opponent piece
\* on the step-neighbour and an empty square behind it
CanJump(b, c) ==
    {p \in Mine(b, c) :
        \E d \in Allowed(b, p, c) :
            /\ \E q \in relative_to(d, p) : coloring_eq(b, q, Opponent(c))
            /\ \E r \in TwoSteps(d, p) : is_empty(b, r)}

\* C19: for every board that satisfies the invariants and each side,
\* get_movers(side) is the set of that side's pieces with an empty diagonal
\* step-neighbour in a direction the piece may move: none missing, none extra.
C19_MoversAreSemantic ==
    (last.op = "get_movers" /\ BoardInvariants(board))
        => \A c \in {Black, White} : last.result[c] = CanMove(board, c)

\* a white king on square 12 of the left edge, a white man on 15 of the right
\* edge and a black man on 8: the king has the one empty neighbour 16 (7 and
\* 15 are no neighbours of 12), the man on 15 moves to 10 or 11, the black
\* man on 8 moves to 13
C19_Witness ==
    /\ last.op = "get_movers"
    /\ board = [blacks |-> {8}, whites |-> {12, 15}, kings |-> {12}, turn |-> White]
    /\ last.result[White] = {12, 15}
    /\ last.result[Black] = {8}

\* C20: for every board that satisfies the invariants and each side,
\* get_jumpers(side) is the set of that side's pieces for which an allowed
\* direction has an opponent piece on the step-neighbour and an empty
\* on-board square behind it: none missing, none extra.
C20_JumpersAreSemantic ==
    (last.op = "get_jumpers" /\ BoardInvariants(board))
        => \A c \in {Black, White} : last.result[c] = CanJump(board, c)

\* a white king on square 12 of the left edge next to the black man on 8 and
\* the empty square 5 behind it; the black man on 15 of the right edge is no
\* neighbour of 12, and the black men have nothing to capture
C20_Witness ==
    /\ last.op = "get_jumpers"
    /\ board = [blacks |-> {8, 15}, whites |-> {12}, kings |-> {12}, turn |-> White]
    /\ last.result[White] = {12}
    /\ last.result[Black] = {}


\* C21: get_game_state(b) is Completed with the opponent of the side to move
\* as winner exactly when the side to move has neither a piece that can move
\* nor one that can capture, and InProgress otherwise; it is never a draw, and
\* whether the side not to move can move or capture plays no part.
C21_GameState ==
    last.op = "get_game_state"
        => /\ last.result.completed
                  <=> (CanMove(board, board.turn) = {} /\ CanJump(board, board.turn) = {})
           /\ last.result.completed => last.result.winner = Opponent(board.turn)
           /\ ~last.result.completed => last.result.winner = InProgress

\* White to move with one man, whose two forward neighbours hold black men
\* with empty squares behind them: no simple move, two captures, InProgress
C21_Witness ==
    /\ last.op = "get_game_state"
    /\ board = [blacks |-> {5, 6}, whites |-> {9}, kings |-> {}, turn |-> White]
    /\ get_movers(board, White) = {}
    /\ get_jumpers(board, White) = {9}
    /\ last.result = [completed |-> FALSE, winner |-> InProgress]


\* ------------------------------------------------------------------------
\* The constructors of SearchConstraint.

MAX_DEPTH == 25

MAX_TIME == 300000

\* SearchConstraint::depth with the limit itself rejected
SearchConstraint_depth_off_by_one(d) ==
    IF d >= MAX_DEPTH
    THEN [tag |-> "Err", err |-> "Depth too large! Pick lower than 25"]
    ELSE [tag |-> "Ok", constraint |-> [kind |-> "Depth", depth |-> d]]

\* SearchConstraint::depth
SearchConstraint_depth(d) ==
    IF d > MAX_DEPTH
    THEN [tag |-> "Err", err |-> "Depth too large! Pick lower than 25"]
    ELSE [tag |-> "Ok", constraint |-> [kind |-> "Depth", depth |-> d]]

\* SearchConstraint::time: the duration is kept in milliseconds
SearchConstraint_time(t) ==
    IF t > MAX_TIME
    THEN [tag |-> "Err", err |-> "Time to large! Pick lower than 300 seconds"]
    ELSE [tag |-> "Ok", constraint |-> [kind |-> "Time", millis |-> t]]

\* how far the arguments offered lie around the two limits
ConstraintSlack == 50

\* the arguments offered: those around the limit and a large u32
DepthInputs == (0..(MAX_DEPTH + ConstraintSlack)) \cup {2147483647}

TimeInputs ==
    {0} \cup ((MAX_TIME - ConstraintSlack)..(MAX_TIME + ConstraintSlack)) \cup {2147483647}

InitConstraint ==
    /\ board = DefaultBoard
    /\ ply = 0
    /\ last = NoCall
    /\ overflow_checks \in BOOLEAN
    /\ tt = NewTable
    /\ saves = << >>
    /\ tlast = NoCall
    /\ iddfs = NoIddfs
    /\ conc = NoConc
    /\ app = NoApp

\* SearchConstraint::depth(d)
ConstraintDepth ==
    /\ last = NoCall
    /\ \E d \in DepthInputs :
          last' = [op |-> "depth", arg |-> d, result |-> SearchConstraint_depth(d)]
    /\ UNCHANGED <<board, ply, overflow_checks, tt, saves, tlast, iddfs, conc, app>>

\* SearchConstraint::time(t)
ConstraintTime ==
    /\ last = NoCall
    /\ \E t \in TimeInputs :
          last' = [op |-> "time", arg |-> t, result |-> SearchConstraint_time(t)]
    /\ UNCHANGED <<board, ply, overflow_checks, tt, saves, tlast, iddfs, conc, app>>

NextConstraint ==
    \/ ConstraintDepth
    \/ ConstraintTime

SpecConstraint == InitConstraint /\ [][NextConstraint]_vars

\* C22: SearchConstraint::depth(d) is an error exactly when d > 25 and
\* SearchConstraint::time(ms) exactly when ms > 300000; 25 and 300000 are
\* accepted and give Depth(25) and Time(300000 ms).
C22_ConstraintLimits ==
    /\ last.op = "depth"
           => /\ (last.result.tag = "Err") <=> (last.arg > 25)
              /\ last.result.tag = "Ok"
                     => last.result.constraint = [kind |-> "Depth", depth |-> last.arg]
    /\ last.op = "time"
           => /\ (last.result.tag = "Err") <=> (last.arg > 300000)
              /\ last.result.tag = "Ok"
                     => last.result.constraint = [kind |-> "Time", millis |-> last.arg]

\* the limit of the depth was offered and accepted
C22_Witness ==
    /\ last.op = "depth"
    /\ last.arg = 25
    /\ last.result = [tag |-> "Ok", constraint |-> [kind |-> "Depth", depth |-> 25]]


\* C23: new_search() adds one to the 8-bit generation modulo 256: the call
\* succeeds after any number of searches, and from 255 the generation wraps
\* to 0.
C23_NewSearchWraps ==
    tlast.op = "new_search"
        => /\ ~tt.panicked
           /\ tt.generation = (tlast.before + 1) % 256

\* with overflow checks the call at generation 255 panics in
\* self.generation += 1
C23_Failing ==
    /\ overflow_checks
    /\ tlast.op = "new_search"
    /\ tlast.before = 255
    /\ tt.panicked
    /\ tt.generation = 255


\* the replacement priority of entry e at generation g, as an integer
Priority(e, g) == e.depth - 4 * (g - e.generation)

\* the slots of cluster c that are empty or rank below entry at generation g
Replaceable(c, entry, g) ==
    {i \in 1..CLUSTER_SIZE :
        c[i].depth = DEFAULT_FLAG \/ Priority(c[i], g) < Priority(entry, g)}

\* what save(sv.hash, sv.state, sv.depth, sv.score) on table T must leave
SaveEffect(T, sv) ==
    LET key == sv.hash % T.n_clusters
        entry == [state |-> sv.state, depth |-> sv.depth, score |-> sv.score,
                  generation |-> T.generation]
        slots == Replaceable(ClusterAt(T, key), entry, T.generation)
    IN  IF slots = {} THEN T
        ELSE WithEntry(T, key, SetMin(slots), entry)

\* C24: save(key, state, depth, score) overwrites exactly one slot, the first
\* slot of cluster key mod N that is empty or whose replacement priority is
\* strictly lower than the new entry's, with (state, depth, score, current
\* generation); if no slot qualifies the table is unchanged; every other slot
\* and every other cluster is unchanged.  (Stated for tables that have
\* clusters: with N = 0 there is no cluster key mod N.)
C24_SaveFrame ==
    [][(tlast'.op = "save" /\ saves' # saves /\ tt.n_clusters > 0)
        => tt' = SaveEffect(tt, tlast')]_vars

\* without overflow checks: a first save at depth 0 in generation 1, then a
\* save at depth 2 in generation 2 under the same key; the first entry, of
\* priority 0 - 4, is kept and the new entry is put into the second slot
C24_Failing ==
    /\ ~overflow_checks
    /\ tt.n_clusters > 0
    /\ tlast.op = "save"
    /\ tlast.depth = 2
    /\ tt.generation = 2
    /\ Len(saves) = 2
    /\ saves[1].hash = tlast.hash
    /\ LET c == ClusterAt(tt, tlast.hash % tt.n_clusters)
       IN  /\ c[1].depth = 0
           /\ c[1].generation = 1
           /\ Priority(c[1], 2) < Priority(c[2], 2)
           /\ c[2] = [state |-> tlast.state, depth |-> 2, score |-> tlast.score,
                      generation |-> 2]


\* the row of square s on the 8x8 board
RowOf(s) == s \div 4

\* the file of square s on the 8x8 board: the playable squares of an even row
\* lie one file to the right of those of an odd row
FileOf(s) == 2 * (s % 4) + (IF RowOf(s) % 2 = 0 THEN 1 ELSE 0)

\* the squares k diagonal steps from s in direction dir on the 8x8 board
Diagonal(dir, s, k) ==
    {q \in Squares :
        /\ RowOf(q) = RowOf(s) + (IF IsUp(dir) THEN 0 - k ELSE k)
        /\ FileOf(q) = FileOf(s) + (IF dir \in {UpLeft, DownLeft} THEN 0 - k ELSE k)}

\* C25: the step and the jump of a direction reject wrap-around: for a square
\* s in 0..31 relative_to returns the diagonal neighbour of s on the 8x8 board
\* and relative_jump_from the square two diagonals away, when that square is
\* on the board; in every other case, and for every s > 31, they return none.
C25_NoWrapAround ==
    /\ last.op = "relative_to"
           => /\ last.result.tag = "Ok"
              /\ last.result.value =
                     IF last.position \in Squares
                     THEN Diagonal(last.dir, last.position, 1) ELSE {}
    /\ last.op = "relative_jump_from"
           => /\ last.result.tag = "Ok"
              /\ last.result.value =
                     IF last.position \in Squares
                     THEN Diagonal(last.dir, last.position, 2) ELSE {}

\* relative_jump_from(255) DownRight: 255 as i8 is -1, which passes the test
\* position > 31, and -1 + 9 = 8 is returned
C25_Failing ==
    /\ last.op = "relative_jump_from"
    /\ last.dir = DownRight
    /\ last.position = 255
    /\ last.result = [tag |-> "Ok", value |-> {8}]


\* ------------------------------------------------------------------------
\* C26

RECURSIVE Listed(_, _)
\* the pieces of mask m in ascending square order, kings with the prefix K,
\* separated by commas
Listed(b, m) ==
    IF m = {} THEN << >>
    ELSE (IF SetMin(m) \in b.kings THEN <<"K">> ELSE << >>)
         \o to_string(SetMin(m) + 1)
         \o (IF m = {SetMin(m)} THEN << >> ELSE <<",">> \o Listed(b, m \ {SetMin(m)}))

\* the FEN text of b: the side to move, the whites, the blacks; a side
\* without pieces is just its colour letter
FenText(b) ==
    <<(IF b.turn = Black THEN "B" ELSE "W"), ":", "W">> \o Listed(b, b.whites)
    \o <<":", "B">> \o Listed(b, b.blacks)

\* C26: for every board that satisfies the invariants, also one where a side
\* has no pieces, fen writes the side to move, then the whites and the
\* blacks in ascending square order with kings prefixed by K, an empty side
\* as just its colour letter, and from_fen of that text returns Ok of the
\* same board.
C26_FenRoundTrip ==
    BoardInvariants(board) =>
        /\ last.op = "fen" => last.result = FenText(board)
        /\ last.op = "from_fen" => last.result = Ok(board)

\* TEST_BOARD_4 has no black piece: fen pops the letter B and from_fen of
\* the text fails
C26_Failing ==
    /\ board = TestBoard4
    /\ last.op = "from_fen"
    /\ last.fen_string = <<"B", ":", "W", "3", ",", "K", "1", "1", ":">>
    /\ last.result = ParseBoardError("PositionError")


\* ------------------------------------------------------------------------
\* C27

\* b with the colours of all pieces exchanged
SwapColours(b) == [b EXCEPT !.blacks = b.whites, !.whites = b.blacks]

\* C27: the default evaluator returns the number of black pieces minus the
\* number of white pieces plus the number of black kings minus the number
\* of white kings, so a king counts double; the value is the same with the
\* other side to move, and the board with all colours exchanged has the
\* negated value.
C27_DefaultEvaluator ==
    last.op = "evaluate" =>
        /\ last.result = (Cardinality(board.blacks) - Cardinality(board.whites))
                         + (Cardinality(board.blacks \cap board.kings)
                            - Cardinality(board.whites \cap board.kings))
        /\ evaluate([board EXCEPT !.turn = Opponent(board.turn)]) = last.result
        /\ evaluate(SwapColours(board)) = 0 - last.result

\* TEST_BOARD_2: six whites, two of them kings, against four blacks, one of
\* them a king
C27_Witness ==
    /\ board = TestBoard2
    /\ last.op = "evaluate"
    /\ last.result = 0 - 3


\* ------------------------------------------------------------------------
\* C28

\* the squares the masks of b hold a bit on
Occupied(b) == b.blacks \cup b.whites \cup b.kings

\* square s has the same value in blacks, whites and kings of b and of r
SameSquare(b, r, s) ==
    /\ s \in b.blacks <=> s \in r.blacks
    /\ s \in b.whites <=> s \in r.whites
    /\ s \in b.kings <=> s \in r.kings

\* what a successful take_action(b, a) = Ok(r) did to the board
TakeEffect(b, a, r) ==
    /\ r.turn = Opponent(b.turn)
    /\ source(a) \notin Occupied(r)
    /\ destination(a) \in Mine(r, b.turn)
    /\ destination(a) \notin Mine(r, Opponent(b.turn))
    /\ destination(a) \in r.kings
         <=> (source(a) \in b.kings \/ destination(a) \in FarRow(b.turn))
    /\ HopSquares(a, source(a), 1) \cap Occupied(r) = {}
    /\ \A s \in Squares \ ({source(a), destination(a)} \cup HopSquares(a, source(a), 1)) :
          SameSquare(b, r, s)

\* C28: a successful take_action flips the turn, clears the source, sets
\* the destination in the mover's mask and in kings exactly when the piece
\* was a king or the destination lies on the far row, and clears every
\* captured square from all three masks; every other square keeps its value
\* in the three masks; the board the call was made on is left as it was,
\* also when the result is an Err.
C28_TakeActionFrame ==
    [][(last = NoCall /\ last'.op = "take_action") =>
          /\ board' = board
          /\ last'.result.tag = "Ok" =>
                 TakeEffect(board, last'.action, last'.result.board)]_vars

\* B:W26,27:B22 -- the man on 22 captures 26 and is crowned on 31; the man
\* on 27 stays
C28_Witness ==
    /\ board = PromoteCapture
    /\ Taken
    /\ last.action = [source |-> 21, destination |-> 30, jump_len |-> 1,
                      dirs |-> <<DownRight>>]
    /\ last.result = Ok([blacks |-> {30}, whites |-> {26}, kings |-> {30},
                         turn |-> White])


\* ------------------------------------------------------------------------
\* C29

\* C29: generate_all_actions(b) is empty exactly when get_game_state(b) is
\* Completed, that is, exactly when the side to move has neither movers nor
\* jumpers; whenever a piece of the side to move can move or capture, at
\* least one action is generated.
C29_EmptyIffCompleted ==
    last.op = "generate_all_actions" =>
        /\ last.actions = << >> <=> get_game_state(board).completed
        /\ last.actions = << >>
             <=> (get_movers(board, board.turn) = {}
                  /\ get_jumpers(board, board.turn) = {})
        /\ (CanMove(board, board.turn) # {} \/ CanJump(board, board.turn) # {})
             => last.actions # << >>

\* B:W6,7:BK3 -- the king on 3 captures 7 and then, backwards, 6; the game
\* is in progress and no action is generated
C29_Failing ==
    /\ board = [blacks |-> {2}, whites |-> {5, 6}, kings |-> {2}, turn |-> Black]
    /\ last.op = "generate_all_actions"
    /\ last.actions = << >>
    /\ get_jumpers(board, Black) = {2}
    /\ ~get_game_state(board).completed
    /\ take_action(board, [source |-> 2, destination |-> 0, jump_len |-> 2,
                           dirs |-> <<DownLeft, UpLeft>>]).tag = "Ok"


\* ------------------------------------------------------------------------
\* C30

\* the name of the error a call returned, or Ok or Panic
ResultName(r) == IF r.tag = "Err" THEN r.err.name ELSE r.tag

\* the rules an action can break, stated on squares
WrongSource(b, a) == source(a) \notin Mine(b, b.turn)

TakenDestination(b, a) == destination(a) \in (b.blacks \cup b.whites)

\* hop j of the chain goes backwards and the piece is a man
BackwardHop(b, a, j) == BackwardFor(a.dirs[j], b.turn) /\ source(a) \notin b.kings

\* hop j of the chain jumps over a square of the board that holds no piece
\* of the opponent
WrongSkip(b, a, j) ==
    /\ Cursor(a, j - 1) # {}
    /\ relative_to(a.dirs[j], CHOOSE q \in Cursor(a, j - 1) : TRUE) # {}
    /\ ~(relative_to(a.dirs[j], CHOOSE q \in Cursor(a, j - 1) : TRUE)
           \subseteq Mine(b, Opponent(b.turn)))

\* hop j breaks no rule
HopFine(b, a, j) == ~BackwardHop(b, a, j) /\ HopPasses(b, a, j)

\* the error take_action(b, a) has to report when the source and the
\* destination are fine, named e
OrderAfterSquares(b, a, e) ==
    IF jump_len(a) = 0
    THEN /\ CanJump(b, b.turn) # {} => e = "HaveToJumpError"
         /\ (CanJump(b, b.turn) = {}
             /\ source(a) \notin b.kings
             /\ \E d \in between(source(a), destination(a)) : BackwardFor(d, b.turn))
              => e = "SinglePieceBackwardsError"
    ELSE \A j \in 1..jump_len(a) :
            (\A i \in 1..(j - 1) : HopFine(b, a, i)) =>
                /\ BackwardHop(b, a, j) => e = "SinglePieceBackwardsError"
                /\ (~BackwardHop(b, a, j) /\ WrongSkip(b, a, j))
                     => e = "SkippedPositionError"

\* C30: of the rules an action breaks take_action reports the first in the
\* order SourceColorError, DestinationEmptyError, then for a simple move
\* HaveToJumpError before SinglePieceBackwardsError and for a chain, hop by
\* hop, SinglePieceBackwardsError before SkippedPositionError;
\* NeedMoreJumpingError is reported only when every hop passed.
C30_ErrorOrder ==
    Taken =>
        /\ WrongSource(board, last.action)
             => ResultName(last.result) = "SourceColorError"
        /\ (~WrongSource(board, last.action) /\ TakenDestination(board, last.action))
             => ResultName(last.result) = "DestinationEmptyError"
        /\ (~WrongSource(board, last.action) /\ ~TakenDestination(board, last.action))
             => OrderAfterSquares(board, last.action, ResultName(last.result))
        /\ ResultName(last.result) = "NeedMoreJumpingError"
             => /\ ~WrongSource(board, last.action)
                /\ ~TakenDestination(board, last.action)
                /\ jump_len(last.action) > 0
                /\ \A j \in 1..jump_len(last.action) : HopFine(board, last.action, j)

\* a man is sent backwards over a square that holds no piece of the
\* opponent: both rules of the hop are broken, the direction is reported
C30_Witness ==
    /\ Taken
    /\ ~WrongSource(board, last.action)
    /\ ~TakenDestination(board, last.action)
    /\ jump_len(last.action) > 0
    /\ BackwardHop(board, last.action, 1)
    /\ WrongSkip(board, last.action, 1)
    /\ last.result = Err(SinglePieceBackwardsError)


\* ------------------------------------------------------------------------
\* C31

\* the entries that a save wrote into table T
StoredEntries(T) ==
    {T.clusters[k][i] : k \in DOMAIN T.clusters, i \in 1..CLUSTER_SIZE}
        \ {DefaultEntry}

\* C31: for every stored entry and every generation that new_search reaches,
\* the priority that save compares is the integer
\* depth - 4 * (current generation - generation of the entry), computed
\* without leaving the range of u8; so an older entry of smaller depth never
\* outranks an entry of the current generation.
C31_PriorityExact ==
    ~tt.panicked =>
        \A e \in StoredEntries(tt) :
            /\ replace_value(e, tt.generation)
                 = [value |-> Priority(e, tt.generation), overflow |-> FALSE]
            /\ \A d \in TTDepths :
                  (e.generation # tt.generation /\ d > e.depth) =>
                      replace_value([e EXCEPT !.depth = d,
                                              !.generation = tt.generation],
                                    tt.generation).value
                        > replace_value(e, tt.generation).value

\* an entry of depth 0 saved in generation 1, seen from generation 2: the
\* subtraction 0 - 4 leaves the range of u8 and wraps to 252, above the
\* priority 2 of a fresh entry of depth 2
C31_Failing ==
    /\ ~tt.panicked
    /\ tt.generation = 2
    /\ tlast.op = "new_search"
    /\ \E e \in StoredEntries(tt) :
          /\ e.depth = 0
          /\ e.generation = 1
          /\ Priority(e, 2) = 0 - 4
          /\ replace_value(e, 2) = [value |-> 252, overflow |-> TRUE]


\* ------------------------------------------------------------------------
\* C32

\* the caller has sent the quit message
QuitSignalled ==
    iddfs.caller \in {"drain", "leave", "unwind", "returned", "no_result"}

\* the depth bound of the model does not cut the closure off before its next
\* read of the quit channel
WithinDepths ==
    iddfs.d < MaxDepth \/ (iddfs.d = MaxDepth /\ iddfs.worker # "send")

\* the quit channel is read by the step between two depths only, and that
\* step leaves the loop once the quit message was sent
ReadsBetweenDepths ==
    /\ iddfs.caller # "idle" /\ iddfs'.quit_ch < iddfs.quit_ch
         => iddfs.worker = "check" /\ iddfs'.worker = "done"
    /\ QuitSignalled /\ iddfs.worker = "check" /\ iddfs' # iddfs
         => iddfs'.worker \in {"check", "done"}

\* C32: in a time-bounded search the closure reads the quit channel only
\* between two depths; once the caller has sent the quit message the closure
\* completes at most one further depth and then leaves its loop; when its
\* steps are scheduled fairly it eventually stops.
C32_CooperativeCancel ==
    /\ [][ReadsBetweenDepths]_vars
    /\ [](QuitSignalled => iddfs.completed <= iddfs.at_quit + 1)
    /\ (QuitSignalled /\ WithinDepths) ~> (iddfs.caller # "idle" /\ WorkerGone)

\* the quit message was sent while the closure computed depth 2; it
\* completed that depth, read the message and left the loop
C32_Witness ==
    /\ QuitSignalled
    /\ iddfs.at_quit = 1
    /\ iddfs.completed = 2
    /\ iddfs.worker = "done"
    /\ iddfs.quit_ch = 0


\* ------------------------------------------------------------------------
\* TranspositionTable::save and ::probe called from two threads.  The
\* clusters are shared (Arc<[RwLock<[TTEntry; CLUSTER_SIZE]>]>); every clone
\* of the engine carries its own copy of the generation.
\*   conc.lock[k]   the RwLock of cluster k: the thread that holds it for
\*                  writing, the threads that hold it for reading, poisoned
\*   conc.calls     the calls made so far
\*   conc.th[t]     thread t: where it is (pc), the call it makes, the slot i
\*                  of its loop, the next field f of its copy, what it read
\*                  or returned (result), the calls it finished (done), the
\*                  cluster when it took the lock (snap) and when it gave it
\*                  back (after)

\* the closure of an earlier time-bounded search, still running, and the
\* search started after it
Threads == {"worker", "search"}

\* the generation of the clone a thread works with
GenerationOf(t) == IF t = "worker" THEN 1 ELSE 2

\* the score a thread saves: each thread writes scores of its own
ScoreOf(t) == IF t = "worker" THEN 1 ELSE 2

\* calls the threads make together
MaxCalls == 3

ConcHash == 0

ConcStates == {DefaultBoard, TestBoard6}

\* the fields of a TTEntry in the order they are copied
EntryFields == <<"state", "depth", "score", "generation">>

FreeLock == [writer |-> {}, readers |-> {}, poisoned |-> FALSE]

IdleThread ==
    [pc |-> "idle", op |-> "none", state |-> DefaultBoard, depth |-> 0, i |-> 1,
     f |-> 1, result |-> {}, done |-> 0,
     snap |-> <<DefaultEntry, DefaultEntry, DefaultEntry>>,
     after |-> <<DefaultEntry, DefaultEntry, DefaultEntry>>]

KeyOf(hash) == hash % NewTable.n_clusters

\* the engine's table with the cluster the threads work on listed
ConcTable ==
    [NewTable EXCEPT !.clusters = [k \in {KeyOf(ConcHash)} |-> DefaultCluster]]

\* the entry that thread t saves
EntryOf(t) ==
    [state |-> conc.th[t].state, depth |-> conc.th[t].depth, score |-> ScoreOf(t),
     generation |-> GenerationOf(t)]

\* the slot thread t looks at
SlotOf(t) == tt.clusters[KeyOf(ConcHash)][conc.th[t].i]

InitConc ==
    /\ board = DefaultBoard
    /\ ply = 0
    /\ last = NoCall
    /\ overflow_checks \in BOOLEAN
    /\ tt = ConcTable
    /\ saves = << >>
    /\ tlast = NoCall
    /\ iddfs = NoIddfs
    /\ conc = [lock |-> [k \in {KeyOf(ConcHash)} |-> FreeLock], calls |-> 0,
               th |-> [t \in Threads |-> IdleThread]]
    /\ app = NoApp

\* thread t calls save or probe
ConcCall(t) ==
    /\ conc.th[t].pc = "idle"
    /\ conc.calls < MaxCalls
    /\ \E op \in {"save", "probe"}, s \in ConcStates, d \in TTDepths :
          conc' = [conc EXCEPT !.calls = @ + 1,
                               !.th[t] = [@ EXCEPT !.pc = "lock", !.op = op,
                                                   !.state = s, !.depth = d,
                                                   !.i = 1, !.f = 1,
                                                   !.result = {},
                                                   !.snap = IdleThread.snap,
                                                   !.after = IdleThread.after]]
    /\ UNCHANGED <<board, ply, last, overflow_checks, tt, saves, tlast, iddfs, app>>

\* write() ignoring the threads that hold the lock
ConcLock_never_waits(t) ==
    /\ conc.th[t].pc = "lock"
    /\ conc' = IF conc.lock[KeyOf(ConcHash)].poisoned
               THEN [conc EXCEPT !.th[t].pc = "panicked"]
               ELSE [conc EXCEPT !.th[t].pc = "loop",
                                 !.th[t].snap = tt.clusters[KeyOf(ConcHash)]]
    /\ UNCHANGED <<board, ply, last, overflow_checks, tt, saves, tlast, iddfs, app>>

\* self.clusters[key].write().unwrap() of save, .read().unwrap() of probe:
\* the thread waits until it may hold the lock; a poisoned lock makes the
\* unwrap panic
ConcLock(t) ==
    /\ conc.th[t].pc = "lock"
    /\ conc.lock[KeyOf(ConcHash)].writer = {}
    /\ conc.th[t].op = "save" => conc.lock[KeyOf(ConcHash)].readers = {}
    /\ conc' = IF conc.lock[KeyOf(ConcHash)].poisoned
               THEN [conc EXCEPT !.th[t].pc = "panicked"]
               ELSE IF conc.th[t].op = "save"
               THEN [conc EXCEPT !.lock[KeyOf(ConcHash)].writer = {t},
                                 !.th[t].pc = "loop",
                                 !.th[t].snap = tt.clusters[KeyOf(ConcHash)]]
               ELSE [conc EXCEPT !.lock[KeyOf(ConcHash)].readers = @ \cup {t},
                                 !.th[t].pc = "loop",
                                 !.th[t].snap = tt.clusters[KeyOf(ConcHash)]]
    /\ UNCHANGED <<board, ply, last, overflow_checks, tt, saves, tlast, iddfs, app>>

\* one turn of for i in 0..CLUSTER_SIZE of save with the priorities mine and
\* theirs: a panic of replace_value unwinds through the guard and poisons
\* the lock
ConcSaveTurn(t, mine, theirs) ==
    IF conc.th[t].i > CLUSTER_SIZE
    THEN [conc EXCEPT !.th[t].pc = "unlock"]
    ELSE IF overflow_checks /\ (mine.overflow \/ theirs.overflow)
    THEN [conc EXCEPT !.th[t].pc = "panicked",
                      !.lock[KeyOf(ConcHash)] =
                          [writer |-> {}, readers |-> @.readers, poisoned |-> TRUE]]
    ELSE IF mine.value > theirs.value \/ SlotOf(t).depth = DEFAULT_FLAG
    THEN [conc EXCEPT !.th[t].pc = "write"]
    ELSE [conc EXCEPT !.th[t].i = @ + 1]

ConcSaveLoop(t) ==
    /\ conc.th[t].pc = "loop"
    /\ conc.th[t].op = "save"
    /\ conc' = ConcSaveTurn(t, replace_value(EntryOf(t), GenerationOf(t)),
                            IF conc.th[t].i > CLUSTER_SIZE
                            THEN replace_value(EntryOf(t), GenerationOf(t))
                            ELSE replace_value(SlotOf(t), GenerationOf(t)))
    /\ UNCHANGED <<board, ply, last, overflow_checks, tt, saves, tlast, iddfs, app>>

\* cluster[i] = entry, one field of the entry at a time
ConcWrite(t) ==
    /\ conc.th[t].pc = "write"
    /\ tt' = [tt EXCEPT !.clusters[KeyOf(ConcHash)][conc.th[t].i]
                            [EntryFields[conc.th[t].f]] =
                                EntryOf(t)[EntryFields[conc.th[t].f]]]
    /\ conc' = IF conc.th[t].f = Len(EntryFields)
               THEN [conc EXCEPT !.th[t].pc = "unlock"]
               ELSE [conc EXCEPT !.th[t].f = @ + 1]
    /\ UNCHANGED <<board, ply, last, overflow_checks, saves, tlast, iddfs, app>>

\* one turn of for i in 0..CLUSTER_SIZE of probe: the test of depth and state
ConcProbeLoop(t) ==
    /\ conc.th[t].pc = "loop"
    /\ conc.th[t].op = "probe"
    /\ conc' = IF conc.th[t].i > CLUSTER_SIZE
               THEN [conc EXCEPT !.th[t].pc = "unlock"]
               ELSE IF SlotOf(t).depth >= conc.th[t].depth
                       /\ SlotOf(t).state = conc.th[t].state
               THEN [conc EXCEPT !.th[t].pc = "hit"]
               ELSE [conc EXCEPT !.th[t].i = @ + 1]
    /\ UNCHANGED <<board, ply, last, overflow_checks, tt, saves, tlast, iddfs, app>>

\* return Some(cluster[i].score)
ConcProbeHit(t) ==
    /\ conc.th[t].pc = "hit"
    /\ conc' = [conc EXCEPT !.th[t].pc = "unlock",
                            !.th[t].result = {SlotOf(t).score}]
    /\ UNCHANGED <<board, ply, last, overflow_checks, tt, saves, tlast, iddfs, app>>

\* the guard is dropped when the call returns
ConcUnlock(t) ==
    /\ conc.th[t].pc = "unlock"
    /\ conc' = [conc EXCEPT !.lock[KeyOf(ConcHash)] =
                                [writer |-> @.writer \ {t}, readers |-> @.readers \ {t},
                                 poisoned |-> @.poisoned],
                            !.th[t].pc = "idle",
                            !.th[t].done = @ + 1,
                            !.th[t].after = tt.clusters[KeyOf(ConcHash)]]
    /\ UNCHANGED <<board, ply, last, overflow_checks, tt, saves, tlast, iddfs, app>>

NextConc ==
    \E t \in Threads :
        \/ ConcCall(t)
        \/ ConcLock(t)
        \/ ConcSaveLoop(t)
        \/ ConcWrite(t)
        \/ ConcProbeLoop(t)
        \/ ConcProbeHit(t)
        \/ ConcUnlock(t)

SpecConc == InitConc /\ [][NextConc]_vars

\* the table with cluster c under the key of the calls, as the clone of
\* thread t sees it
TableOf(t, c) ==
    [tt EXCEPT !.clusters[KeyOf(ConcHash)] = c, !.generation = GenerationOf(t),
               !.panicked = FALSE]

\* thread t has returned from a call
Returned33(t) == conc.th[t].pc = "idle" /\ conc.th[t].done > 0

\* C33: when save and probe are called on one cluster from different
\* threads, every call that returns acted on the cluster as it was when the
\* call took the lock: a probe returns what probe returns on that cluster,
\* so a hit is the score of one entry with the matching state and a
\* sufficient depth, never a mixture of two entries, and a save leaves what
\* save makes of that cluster.
C33_SerialisedCluster ==
    \A t \in Threads :
        Returned33(t) =>
            IF conc.th[t].op = "probe"
            THEN /\ conc.th[t].result
                      = probe(TableOf(t, conc.th[t].snap), ConcHash,
                              conc.th[t].state, conc.th[t].depth).value
                 /\ \A v \in conc.th[t].result :
                       \E i \in 1..CLUSTER_SIZE :
                           /\ conc.th[t].snap[i].score = v
                           /\ conc.th[t].snap[i].state = conc.th[t].state
                           /\ conc.th[t].snap[i].depth >= conc.th[t].depth
                 /\ conc.th[t].after = conc.th[t].snap
            ELSE conc.th[t].after
                   = save(TableOf(t, conc.th[t].snap), ConcHash, conc.th[t].state,
                          conc.th[t].depth, ScoreOf(t), overflow_checks)
                         .clusters[KeyOf(ConcHash)]

\* the search probed TEST_BOARD_6 while the worker was about to save it: the
\* probe waited for the save and returned the worker's score
C33_Witness ==
    /\ Returned33("search")
    /\ conc.th["search"].op = "probe"
    /\ conc.th["search"].state = TestBoard6
    /\ conc.th["search"].result = {ScoreOf("worker")}
    /\ conc.th["worker"].op = "save"
    /\ conc.th["worker"].done = 1
    /\ conc.th["search"].done = 1


\* ------------------------------------------------------------------------
\* C34

\* the children of a node in the order the loops of minmax_helper visit
\* them: that of state.generate_all_actions()
Visited(state) == generate_all_actions(state)

\* the children come in the order of their static evaluation: descending
\* when the side to move is Max, ascending when it is Min
InStaticOrder(children, side) ==
    \A i, j \in DOMAIN children :
        i < j => IF optim(side) = Max
                 THEN evaluate(children[i].state) >= evaluate(children[j].state)
                 ELSE evaluate(children[i].state) <= evaluate(children[j].state)

\* the nodes right below the root of the search recorded in last; with a
\* depth of one or more those that are not terminal are interior nodes
BelowRoot == {Visited(last.state)[i].state : i \in DOMAIN Visited(last.state)}

\* C34: at every interior node of the search the children are visited in the
\* order of their static evaluation, descending when the side to move at the
\* node is Max (Black) and ascending when it is Min (White).
C34_ChildrenOrdered ==
    (SearchedDepth /\ last.constraint.depth >= 1) =>
        \A node \in BelowRoot :
            ~get_game_state(node).completed
                => InStaticOrder(Visited(node), node.turn)


\* W:W9,K11,19,K26,27,30:B15,22,25,K32 searched to depth 1: below the root,
\* after 19x10, Black (Max) is to move and its two captures are visited in
\* the generated order, the one evaluated -3 before the one evaluated -1
C34_Failing ==
    /\ SearchedDepth
    /\ last.state = TestBoard2
    /\ last.constraint.depth = 1
    /\ LET node == Visited(TestBoard2)[2].state
       IN  /\ node.turn = Black
           /\ ~get_game_state(node).completed
           /\ Len(Visited(node)) = 2
           /\ evaluate(Visited(node)[1].state) = 0 - 3
           /\ evaluate(Visited(node)[2].state) = 0 - 1


\* ------------------------------------------------------------------------
\* C35

RECURSIVE HopsOver(_, _)
\* the squares the first k hops of a chain jump over
HopsOver(a, k) ==
    IF k = 0 THEN {}
    ELSE HopsOver(a, k - 1)
         \cup (IF Cursor(a, k - 1) = {} THEN {}
               ELSE relative_to(a.dirs[k], CHOOSE q \in Cursor(a, k - 1) : TRUE))

\* the squares that hold a piece when hop k of chain a on board b is made:
\* the source is left, the pieces jumped over by the earlier hops are taken
OccupiedAtHop(b, a, k) ==
    ((b.blacks \cup b.whites) \ {source(a)}) \ HopsOver(a, k - 1)

\* C35: in every capture chain that validate_action accepts, each hop lands
\* on a square that is empty when the hop is made, the final destination
\* and every square in between.
C35_LandsOnEmpty ==
    (Taken /\ jump_len(last.action) > 0
       /\ validate_action(board, last.action).tag = "Ok") =>
        \A k \in 1..jump_len(last.action) :
            /\ Cursor(last.action, k) # {}
            /\ Cursor(last.action, k) \cap OccupiedAtHop(board, last.action, k) = {}


\* W:W9,K11,19,K26,27,30:B15,22,25,K32 and the chain 11-18-25-18: the second
\* hop of the king lands on 25, where a black man stands, and the chain is
\* accepted
C35_Failing ==
    /\ Accepted
    /\ board = TestBoard2
    /\ last.action = [source |-> 10, destination |-> 17, jump_len |-> 3,
                      dirs |-> <<DownLeft, DownLeft, UpRight>>]
    /\ validate_action(board, last.action).tag = "Ok"
    /\ Cursor(last.action, 2) = {24}
    /\ 24 \in board.blacks
    /\ 24 \in OccupiedAtHop(board, last.action, 2)


\* ------------------------------------------------------------------------
\* C36

\* C36: a successful take_action of an action with jump_len k removes
\* exactly k distinct pieces of the opponent and leaves the number of pieces
\* of the side that moved as it was (k = 0 for a simple move); no accepted
\* chain jumps over the same piece twice, and the moved piece keeps its
\* colour.
C36_CapturesCounted ==
    Accepted =>
        /\ Cardinality(Mine(last.result.board, Opponent(board.turn)))
             = Cardinality(Mine(board, Opponent(board.turn))) - jump_len(last.action)
        /\ Cardinality(Mine(last.result.board, board.turn))
             = Cardinality(Mine(board, board.turn))
        /\ Cardinality(HopsOver(last.action, jump_len(last.action)))
             = jump_len(last.action)
        /\ \A j, k \in 1..jump_len(last.action) :
              j # k => relative_to(last.action.dirs[j],
                                   CHOOSE q \in Cursor(last.action, j - 1) : TRUE)
                       # relative_to(last.action.dirs[k],
                                     CHOOSE q \in Cursor(last.action, k - 1) : TRUE)
        /\ destination(last.action) \in Mine(last.result.board, board.turn)
        /\ destination(last.action) \notin Mine(last.result.board, Opponent(board.turn))

\* W:W9,K11,19,K26,27,30:B15,22,25,K32 and the chain 11-18-25-18: the second
\* and the third hop both jump over the man on 22; three hops take two of
\* the four black pieces
C36_Failing ==
    /\ Accepted
    /\ board = TestBoard2
    /\ jump_len(last.action) = 3
    /\ HopsOver(last.action, 3) = {14, 21}
    /\ HopsOver(last.action, 2) = {14, 21}
    /\ Cardinality(board.blacks) = 4
    /\ Cardinality(last.result.board.blacks) = 2


\* a step in which the closure leaves eval_tx.send(eval)
SendStep ==
    /\ iddfs.caller # "idle"
    /\ iddfs.worker = "send"
    /\ iddfs'.worker # "send"

\* C37: in a time-bounded search the closure never sends a result after the
\* caller has returned and dropped the receiver: in every interleaving,
\* whenever the closure executes its send the caller still holds the
\* receiver, the send succeeds (the result joins the channel and the loop
\* goes on to the next depth) and the closure does not fail.
C37_SendsSucceed ==
    [][SendStep => /\ ~CallerGone
                   /\ iddfs'.worker = "compute"
                   /\ iddfs'.eval_ch = Append(iddfs.eval_ch, iddfs.eval)]_vars

\* a search of TEST_BOARD_2: the closure sent depth 1, completed depth 2 and
\* found the quit channel empty; the caller then sent the quit message,
\* drained the channel and returned depth 1, dropping the receiver; the
\* closure's send of depth 2 failed and its unwrap panicked
C37_Failing ==
    /\ board = TestBoard2
    /\ iddfs.caller = "returned"
    /\ iddfs.result.depth = 1
    /\ iddfs.worker = "panicked"
    /\ iddfs.d = 2
    /\ iddfs.eval.depth = 2
    /\ iddfs.quit_ch = 1

-----------------------------------------------------------------------------
(* Specification of the command line session: app.rs State, whose board is *)
(* the variable board, under the commands that write to it.                *)
(* The other commands read the board and the history and leave them alone. *)

\* number of commands of a session
MaxCommands == 2

\* the Actions of the two-square movetexts
PairActions ==
    {from_vector(v).action : v \in {w \in PairInputs : from_vector(w).ok}}

\* the Actions a take command is given on board b: every two-square movetext
\* and every action the generator lists
AppInputs(b) ==
    PairActions
        \cup {generate_all_actions(b)[i].action :
                 i \in DOMAIN generate_all_actions(b)}

\* State::default()
InitApp ==
    /\ board = DefaultBoard
    /\ ply = 0
    /\ last = NoCall
    /\ overflow_checks = TRUE
    /\ tt = NewTable
    /\ saves = << >>
    /\ tlast = NoCall
    /\ iddfs = NoIddfs
    /\ conc = NoConc
    /\ app = Session("default", DefaultBoard)

\* a command can be executed
AppReady ==
    /\ app.history # "none"
    /\ app.running
    /\ app.commands < MaxCommands

\* State::set_board
set_board(b) ==
    /\ AppReady
    /\ board' = b
    /\ app' = [app EXCEPT !.history = << >>, !.start = b, !.applied = << >>,
                          !.last = AppFound("fen", Ok(b)),
                          !.commands = @ + 1]
    /\ UNCHANGED <<ply, last, overflow_checks, tt, saves, tlast, iddfs, conc>>

\* the command take
AppTakeAction ==
    /\ AppReady
    /\ \E a \in AppInputs(board) : AppTaken(a, take_action(board, a))
    /\ UNCHANGED <<ply, last, overflow_checks, tt, saves, tlast, iddfs, conc>>

\* the command fen with a board
AppSetFen ==
    \E b \in InitBoards : set_board(b)

\* State::clear
clear ==
    /\ AppReady
    /\ board' = DefaultBoard
    /\ app' = [app EXCEPT !.history = << >>, !.start = DefaultBoard,
                          !.applied = << >>,
                          !.last = AppFound("clear", Ok(DefaultBoard)),
                          !.commands = @ + 1]
    /\ UNCHANGED <<ply, last, overflow_checks, tt, saves, tlast, iddfs, conc>>

NextApp ==
    \/ AppSetFen
    \/ AppTakeAction
    \/ clear

SpecApp == InitApp /\ [][NextApp]_vars

RECURSIVE Replay(_, _)
\* the actions of h taken one after the other from board b
Replay(b, h) ==
    IF h = << >> THEN Ok(b)
    ELSE IF take_action(b, Head(h)).tag = "Ok"
         THEN Replay(take_action(b, Head(h)).board, Tail(h))
         ELSE take_action(b, Head(h))

\* C38: after any sequence of commands the action history holds exactly the
\* actions applied with success since the last fen-set or clear, in order,
\* and replaying it from the board of that command gives the current board;
\* a take command whose action failed with an ActionError left the board
\* and the history as it found them.
C38_HistoryReplays ==
    (app.history # "none")
        => /\ app.history = app.applied
           /\ Replay(app.start, app.history) = Ok(board)
           /\ (app.last.op = "take" /\ app.last.result.tag = "Err")
                  => /\ board = app.last.board
                     /\ app.history = app.last.history

\* take 21-17 on the default board, where Black is to move and 21 holds a
\* white man: take_action returned SourceColorError, the board is still the
\* default board, and the history holds the action
C38_Failing ==
    /\ app.history # "none"
    /\ app.last.op = "take"
    /\ app.last.board = DefaultBoard
    /\ app.last.history = << >>
    /\ app.last.result.tag = "Err"
    /\ app.last.result.err.name = "SourceColorError"
    /\ board = DefaultBoard
    /\ app.applied = << >>
    /\ app.history = <<[source |-> 20, destination |-> 16,
                        jump_len |-> 0, dirs |-> << >>]>>

\* C39: for every direction dir and every square s of 0..31,
\* relative_jump_from(dir, s) is defined exactly when relative_to(dir, s) and
\* relative_to of its result are both defined, and the jump square is then
\* the result of the two steps; so the square a jump on the board captures,
\* relative_to(dir, s), is defined whenever the jump square is.
C39_JumpIsTwoSteps ==
    (last.op = "relative_jump_from" /\ last.position <= 31)
        => /\ last.result.tag = "Ok"
           /\ last.result.value = TwoSteps(last.dir, last.position)
           /\ (last.result.value # {}
                  => relative_to(last.dir, last.position) # {})

\* the jump down and to the right from square 0 lands on 9, over square 5
C39_Witness ==
    /\ last.op = "relative_jump_from"
    /\ last.dir = DownRight
    /\ last.position = 0
    /\ last.result.tag = "Ok"
    /\ last.result.value = {9}
    /\ relative_to(DownRight, 0) = {5}
    /\ relative_to(DownRight, 5) = {9}

====
